---------------------------- MODULE Spec2Model ----------------------------
(***************************************************************************)
(* A model of the rule-based clause-extraction engine of Clause-Lab        *)
(* (src/unnamed/part_001: extractClausesRuleBased and the functions it     *)
(* calls), of the clause and contract store (src/src/services/database.ts) *)
(* and of its synchronisation (src/src/services/googleSync.ts).            *)
(*                                                                         *)
(* Text.  A string is modelled as a sequence of lexemes.  Every lexeme IS  *)
(* its own text ("1", ".", " ", "\n", "TERM", a whole sentence, ...), so   *)
(* the string a sequence stands for is the concatenation of its elements.  *)
(* TLC cannot look inside a string, so what the source's regular           *)
(* expressions and keyword tests need to know about a lexeme (its length,  *)
(* the character classes it begins with, the keywords it contains and      *)
(* where) is tabulated below from the lexeme's text.  A regular expression *)
(* of the source is an operator over lexeme sequences that follows the     *)
(* expression element by element.  The lexemes are chosen so that every    *)
(* match of every expression begins and ends at a lexeme boundary: the     *)
(* whitespace characters and the period are lexemes of their own, and no   *)
(* other lexeme contains a period, a newline, or a leading or trailing     *)
(* blank.                                                                  *)
(***************************************************************************)
EXTENDS Integers, Sequences, FiniteSets

(***************************************************************************)
(* The lexemes and their tables.                                           *)
(***************************************************************************)
Tokens == {"\n", " ", ".", "\t", "\r", " ", "a", "1", "2", "12", "I", "TERM", "GENERAL", "(a)", "(b)", "Section", "ARTICLE", "Fine", "Nothing here binds anyone to do very much", "Each side shall do the work as planned", "This Agreement shall be governed by the laws of Delaware", "Notices shall be given in writing", "8", "MISCELLANEOUS", "INDEMNITY", "Each party shall indemnify the other", "This agreement lasts one year", "Both Parties keep the books for seven years", "Both Parties keep records of every sale made", "This agreement binds each heir", "Between each party", "This agreement is dated today", "The parties keep this confidential", "Liability is capped", "Notice of termination", "Nothing in this part binds anyone to do anything more than what has been said before and nothing in it binds anyone to do anything less than what has been said before"}
TokLen(t) ==
    CASE t = "12" -> 2
      [] t = "TERM" -> 4
      [] t = "GENERAL" -> 7
      [] t = "(a)" -> 3
      [] t = "(b)" -> 3
      [] t = "Section" -> 7
      [] t = "ARTICLE" -> 7
      [] t = "Fine" -> 4
      [] t = "Nothing here binds anyone to do very much" -> 41
      [] t = "Each side shall do the work as planned" -> 38
      [] t = "This Agreement shall be governed by the laws of Delaware" -> 56
      [] t = "Notices shall be given in writing" -> 33
      [] t = "MISCELLANEOUS" -> 13
      [] t = "INDEMNITY" -> 9
      [] t = "Each party shall indemnify the other" -> 36
      [] t = "This agreement lasts one year" -> 29
      [] t = "Both Parties keep the books for seven years" -> 43
      [] t = "Both Parties keep records of every sale made" -> 44
      [] t = "This agreement binds each heir" -> 30
      [] t = "Between each party" -> 18
      [] t = "This agreement is dated today" -> 29
      [] t = "The parties keep this confidential" -> 34
      [] t = "Liability is capped" -> 19
      [] t = "Notice of termination" -> 21
      [] t = "Nothing in this part binds anyone to do anything more than what has been said before and nothing in it binds anyone to do anything less than what has been said before" -> 166
      [] OTHER -> 1
Digits == {"1", "2", "12", "8"}
Digits14 == {"1", "2", "12", "8"}
StartsDigit == {"1", "2", "12", "8"}
Upper1 == {"I"}
Lower1 == {"a"}
RomanU == {"I"}
RomanL == {}
IVX == {"I"}
IVXi == {"I"}
StartsIVX == {"I", "INDEMNITY"}
StartsIVXi == {"I", "INDEMNITY"}
ParenNum == {}
ParenAlpha == {"(a)", "(b)"}
ParenAlnumI == {"(a)", "(b)"}
ParenRomanU == {}
ParenRomanL == {}
SectionI == {"Section"}
ArticleCS == {"ARTICLE"}
ArticleI == {"ARTICLE"}
ArticleUpper == {"ARTICLE"}
ClauseI == {}
StartsUpper == {"I", "TERM", "GENERAL", "Section", "ARTICLE", "Fine", "Nothing here binds anyone to do very much", "Each side shall do the work as planned", "This Agreement shall be governed by the laws of Delaware", "Notices shall be given in writing", "MISCELLANEOUS", "INDEMNITY", "Each party shall indemnify the other", "This agreement lasts one year", "Both Parties keep the books for seven years", "Both Parties keep records of every sale made", "This agreement binds each heir", "Between each party", "This agreement is dated today", "The parties keep this confidential", "Liability is capped", "Notice of termination", "Nothing in this part binds anyone to do anything more than what has been said before and nothing in it binds anyone to do anything less than what has been said before"}
StartsDocKeyword == {"This Agreement shall be governed by the laws of Delaware", "This agreement lasts one year", "This agreement binds each heir", "Between each party", "This agreement is dated today"}
NoNLDot == {" ", "\t", "\r", " ", "a", "1", "2", "12", "I", "TERM", "GENERAL", "(a)", "(b)", "Section", "ARTICLE", "Fine", "Nothing here binds anyone to do very much", "Each side shall do the work as planned", "This Agreement shall be governed by the laws of Delaware", "Notices shall be given in writing", "8", "MISCELLANEOUS", "INDEMNITY", "Each party shall indemnify the other", "This agreement lasts one year", "Both Parties keep the books for seven years", "Both Parties keep records of every sale made", "This agreement binds each heir", "Between each party", "This agreement is dated today", "The parties keep this confidential", "Liability is capped", "Notice of termination", "Nothing in this part binds anyone to do anything more than what has been said before and nothing in it binds anyone to do anything less than what has been said before"}
AlnumUpperI == {"a", "1", "2", "12", "I", "TERM", "GENERAL", "Section", "ARTICLE", "Fine", "8", "MISCELLANEOUS", "INDEMNITY"}
GenericMarker == {"Each side shall do the work as planned", "This Agreement shall be governed by the laws of Delaware", "Notices shall be given in writing", "Each party shall indemnify the other", "This agreement lasts one year", "This agreement binds each heir", "Between each party", "This agreement is dated today"}
MiscWord == {"GENERAL", "MISCELLANEOUS"}
UpperPrefixLen(t) ==
    CASE t = "\n" -> 0
      [] t = " " -> 0
      [] t = "." -> 0
      [] t = "\t" -> 0
      [] t = "\r" -> 0
      [] t = " " -> 0
      [] t = "a" -> 0
      [] t = "1" -> 0
      [] t = "2" -> 0
      [] t = "12" -> 0
      [] t = "TERM" -> 4
      [] t = "GENERAL" -> 7
      [] t = "(a)" -> 0
      [] t = "(b)" -> 0
      [] t = "ARTICLE" -> 7
      [] t = "8" -> 0
      [] t = "MISCELLANEOUS" -> 13
      [] t = "INDEMNITY" -> 9
      [] OTHER -> 1
CapsWsPrefixLen(t) ==
    CASE t = "." -> 0
      [] t = "a" -> 0
      [] t = "1" -> 0
      [] t = "2" -> 0
      [] t = "12" -> 0
      [] t = "TERM" -> 4
      [] t = "GENERAL" -> 7
      [] t = "(a)" -> 0
      [] t = "(b)" -> 0
      [] t = "ARTICLE" -> 7
      [] t = "8" -> 0
      [] t = "MISCELLANEOUS" -> 13
      [] t = "INDEMNITY" -> 9
      [] OTHER -> 1
TitlePrefixLen(t) ==
    CASE t = "." -> 0
      [] t = "1" -> 0
      [] t = "2" -> 0
      [] t = "12" -> 0
      [] t = "TERM" -> 4
      [] t = "GENERAL" -> 7
      [] t = "(a)" -> 3
      [] t = "(b)" -> 3
      [] t = "Section" -> 7
      [] t = "ARTICLE" -> 7
      [] t = "Fine" -> 4
      [] t = "Nothing here binds anyone to do very much" -> 41
      [] t = "Each side shall do the work as planned" -> 38
      [] t = "This Agreement shall be governed by the laws of Delaware" -> 56
      [] t = "Notices shall be given in writing" -> 33
      [] t = "8" -> 0
      [] t = "MISCELLANEOUS" -> 13
      [] t = "INDEMNITY" -> 9
      [] t = "Each party shall indemnify the other" -> 36
      [] t = "This agreement lasts one year" -> 29
      [] t = "Both Parties keep the books for seven years" -> 43
      [] t = "Both Parties keep records of every sale made" -> 44
      [] t = "This agreement binds each heir" -> 30
      [] t = "Between each party" -> 18
      [] t = "This agreement is dated today" -> 29
      [] t = "The parties keep this confidential" -> 34
      [] t = "Liability is capped" -> 19
      [] t = "Notice of termination" -> 21
      [] t = "Nothing in this part binds anyone to do anything more than what has been said before and nothing in it binds anyone to do anything less than what has been said before" -> 166
      [] OTHER -> 1
KeywordType == <<"Confidentiality", "Liability Cap", "Indemnification", "Termination", "Payment Terms", "Ip Ownership", "Governing Law", "Dispute Resolution", "Notice Period", "Force Majeure", "Severability", "Anti-Assignment", "Warranty Duration", "Most Favored Nation", "Non-Compete", "Exclusivity", "Non-Disparagement", "No-Solicit", "Change of Control", "Rofr/Rofo/Rofn", "Revenue/Profit Sharing", "Price Restrictions", "Minimum Commitment", "Volume Restriction", "License Grant", "Source Code Escrow", "Audit Rights", "Liquidated Damages", "Insurance", "Covenant Not To Sue", "Third Party Beneficiary", "Effective Date", "Expiration Date", "Renewal Term">>
KeywordHits(t) ==
    CASE t = "This Agreement shall be governed by the laws of Delaware" -> {<<7, 43>>}
      [] t = "Notices shall be given in writing" -> {<<9, 6>>}
      [] t = "Each party shall indemnify the other" -> {<<3, 25>>}
      [] t = "The parties keep this confidential" -> {<<1, 34>>}
      [] t = "Liability is capped" -> {<<2, 9>>}
      [] t = "Notice of termination" -> {<<4, 18>>, <<9, 6>>}
      [] OTHER -> {}
EarlyHits(t) ==
    CASE t = "This Agreement shall be governed by the laws of Delaware" -> {<<"agreement", 14>>}
      [] t = "Each party shall indemnify the other" -> {<<"party", 10>>}
      [] t = "This agreement lasts one year" -> {<<"agreement", 14>>}
      [] t = "Both Parties keep records of every sale made" -> {<<"made", 44>>}
      [] t = "This agreement binds each heir" -> {<<"agreement", 14>>}
      [] t = "Between each party" -> {<<"between", 7>>, <<"party", 18>>}
      [] t = "This agreement is dated today" -> {<<"agreement", 14>>, <<"dated", 23>>}
      [] OTHER -> {}
commonClauseTypes == <<"Document Name", "Parties", "Agreement Date", "Effective Date", "Expiration Date", "Renewal Term", "Notice Period", "Governing Law", "Most Favored Nation", "Competitive Restriction", "Non-Compete", "Exclusivity", "No-Solicit", "Non-Disparagement", "Termination", "Rofr/Rofo/Rofn", "Change of Control", "Anti-Assignment", "Revenue/Profit Sharing", "Price Restrictions", "Minimum Commitment", "Volume Restriction", "Ip Ownership", "License Grant", "Source Code Escrow", "Post-Termination Services", "Audit Rights", "Liability Cap", "Liquidated Damages", "Warranty Duration", "Insurance", "Covenant Not To Sue", "Third Party Beneficiary", "Indemnification", "Confidentiality", "Force Majeure", "Payment Terms", "Dispute Resolution", "Severability", "Amendment", "Modification", "Waiver", "Entire Agreement", "Counterparts">>
CommonTypeHits(t) ==
    CASE t = "Both Parties keep the books for seven years" -> {2}
      [] t = "Both Parties keep records of every sale made" -> {2}
      [] t = "The parties keep this confidential" -> {2}
      [] t = "Notice of termination" -> {15}
      [] OTHER -> {}
TitleMapping == <<"Indemnification", "Indemnification", "Liability Cap", "Liability Cap", "Confidentiality", "Confidentiality", "Termination", "Termination", "Force Majeure", "Ip Ownership", "Ip Ownership", "Ip Ownership", "Warranty Duration", "Warranty Duration", "Payment Terms", "Payment Terms", "Non-Compete", "Non-Compete", "Governing Law", "Governing Law", "Anti-Assignment", "Anti-Assignment", "Notice Period", "Most Favored Nation", "Exclusivity", "No-Solicit", "Non-Disparagement", "Rofr/Rofo/Rofn", "Rofr/Rofo/Rofn", "Rofr/Rofo/Rofn", "Change of Control", "Revenue/Profit Sharing", "Revenue/Profit Sharing", "Revenue/Profit Sharing", "Minimum Commitment", "Volume Restriction", "License Grant", "Source Code Escrow", "Audit Rights", "Liquidated Damages", "Insurance", "Effective Date", "Expiration Date", "Renewal Term">>
TitleMappingHits(t) ==
    CASE t = "TERM" -> {8}
      [] t = "This Agreement shall be governed by the laws of Delaware" -> {20}
      [] t = "Notices shall be given in writing" -> {23}
      [] t = "INDEMNITY" -> {1}
      [] t = "Liability is capped" -> {4}
      [] t = "Notice of termination" -> {7, 8, 23}
      [] OTHER -> {}
MiscTerms(t) ==
    CASE t = "This Agreement shall be governed by the laws of Delaware" -> {"laws", "governed by the laws", "agreement", "shall be"}
      [] t = "Notices shall be given in writing" -> {"notice", "shall be", "given"}
      [] t = "This agreement lasts one year" -> {"agreement"}
      [] t = "This agreement binds each heir" -> {"agreement"}
      [] t = "This agreement is dated today" -> {"agreement"}
      [] t = "Notice of termination" -> {"notice"}
      [] OTHER -> {}
LongWords(t) ==
    CASE t = "TERM" -> {"term"}
      [] t = "GENERAL" -> {"general"}
      [] t = "Section" -> {"section"}
      [] t = "ARTICLE" -> {"article"}
      [] t = "Fine" -> {"fine"}
      [] t = "Nothing here binds anyone to do very much" -> {"anyone", "binds", "here", "much", "nothing", "very"}
      [] t = "Each side shall do the work as planned" -> {"each", "planned", "shall", "side", "the", "work"}
      [] t = "This Agreement shall be governed by the laws of Delaware" -> {"agreement", "delaware", "governed", "laws", "shall", "the", "this"}
      [] t = "Notices shall be given in writing" -> {"given", "notices", "shall", "writing"}
      [] t = "MISCELLANEOUS" -> {"miscellaneous"}
      [] t = "INDEMNITY" -> {"indemnity"}
      [] t = "Each party shall indemnify the other" -> {"each", "indemnify", "other", "party", "shall", "the"}
      [] t = "This agreement lasts one year" -> {"agreement", "lasts", "one", "this", "year"}
      [] t = "Both Parties keep the books for seven years" -> {"books", "both", "for", "keep", "parties", "seven", "the", "years"}
      [] t = "Both Parties keep records of every sale made" -> {"both", "every", "keep", "made", "parties", "records", "sale"}
      [] t = "This agreement binds each heir" -> {"agreement", "binds", "each", "heir", "this"}
      [] t = "Between each party" -> {"between", "each", "party"}
      [] t = "This agreement is dated today" -> {"agreement", "dated", "this", "today"}
      [] t = "The parties keep this confidential" -> {"confidential", "keep", "parties", "the", "this"}
      [] t = "Liability is capped" -> {"capped", "liability"}
      [] t = "Notice of termination" -> {"notice", "termination"}
      [] t = "Nothing in this part binds anyone to do anything more than what has been said before and nothing in it binds anyone to do anything less than what has been said before" -> {"and", "anyone", "anything", "been", "before", "binds", "has", "less", "more", "nothing", "part", "said", "than", "this", "what"}
      [] OTHER -> {}
TokWords(t) ==
    CASE t = "a" -> <<"a">>
      [] t = "1" -> <<"1">>
      [] t = "2" -> <<"2">>
      [] t = "12" -> <<"12">>
      [] t = "I" -> <<"i">>
      [] t = "TERM" -> <<"term">>
      [] t = "GENERAL" -> <<"general">>
      [] t = "(a)" -> <<"a">>
      [] t = "(b)" -> <<"b">>
      [] t = "Section" -> <<"section">>
      [] t = "ARTICLE" -> <<"article">>
      [] t = "Fine" -> <<"fine">>
      [] t = "Nothing here binds anyone to do very much" -> <<"nothing", "here", "binds", "anyone", "to", "do", "very", "much">>
      [] t = "Each side shall do the work as planned" -> <<"each", "side", "shall", "do", "the", "work", "as", "planned">>
      [] t = "This Agreement shall be governed by the laws of Delaware" -> <<"this", "agreement", "shall", "be", "governed", "by", "the", "laws", "of", "delaware">>
      [] t = "Notices shall be given in writing" -> <<"notices", "shall", "be", "given", "in", "writing">>
      [] t = "8" -> <<"8">>
      [] t = "MISCELLANEOUS" -> <<"miscellaneous">>
      [] t = "INDEMNITY" -> <<"indemnity">>
      [] t = "Each party shall indemnify the other" -> <<"each", "party", "shall", "indemnify", "the", "other">>
      [] t = "This agreement lasts one year" -> <<"this", "agreement", "lasts", "one", "year">>
      [] t = "Both Parties keep the books for seven years" -> <<"both", "parties", "keep", "the", "books", "for", "seven", "years">>
      [] t = "Both Parties keep records of every sale made" -> <<"both", "parties", "keep", "records", "of", "every", "sale", "made">>
      [] t = "This agreement binds each heir" -> <<"this", "agreement", "binds", "each", "heir">>
      [] t = "Between each party" -> <<"between", "each", "party">>
      [] t = "This agreement is dated today" -> <<"this", "agreement", "is", "dated", "today">>
      [] t = "The parties keep this confidential" -> <<"the", "parties", "keep", "this", "confidential">>
      [] t = "Liability is capped" -> <<"liability", "is", "capped">>
      [] t = "Notice of termination" -> <<"notice", "of", "termination">>
      [] t = "Nothing in this part binds anyone to do anything more than what has been said before and nothing in it binds anyone to do anything less than what has been said before" -> <<"nothing", "in", "this", "part", "binds", "anyone", "to", "do", "anything", "more", "than", "what", "has", "been", "said", "before", "and", "nothing", "in", "it", "binds", "anyone", "to", "do", "anything", "less", "than", "what", "has", "been", "said", "before">>
      [] OTHER -> <<>>

(***************************************************************************)
(* String primitives of the host language, on lexeme sequences.            *)
(***************************************************************************)
NL == "\n"
SP == " "
DOT == "."
TAB == "\t"
CR == "\r"
\* The no-break space, U+00A0.
NBSP == " "
\* The lexemes \s matches.
Ws == {NL, SP, TAB, CR, NBSP}
\* The value of a missing JavaScript string (undefined / no lexeme there).
Nothing == ""

At(S, i) == IF i >= 1 /\ i <= Len(S) THEN S[i] ELSE Nothing

Max(X) == CHOOSE x \in X : \A y \in X : y <= x
Min(X) == CHOOSE x \in X : \A y \in X : x <= y

\* String.prototype.length
RECURSIVE length(_)
length(S) == IF S = <<>> THEN 0 ELSE TokLen(Head(S)) + length(Tail(S))

\* The number of characters before lexeme i.
offset(S, i) == length(SubSeq(S, 1, i - 1))

RECURSIVE trimStart(_)
trimStart(S) == IF S # <<>> /\ Head(S) \in Ws THEN trimStart(Tail(S)) ELSE S

RECURSIVE trimEnd(_)
trimEnd(S) ==
    IF S # <<>> /\ S[Len(S)] \in Ws THEN trimEnd(SubSeq(S, 1, Len(S) - 1)) ELSE S

\* String.prototype.trim
trim(S) == trimEnd(trimStart(S))

\* The index of the first lexeme at or after i that \s does not match.
RECURSIVE SkipWs(_, _)
SkipWs(S, i) == IF i <= Len(S) /\ S[i] \in Ws THEN SkipWs(S, i + 1) ELSE i

\* indexOf('\n') from lexeme i on, as a lexeme index (0: none).
RECURSIVE IndexOfNL(_, _)
IndexOfNL(S, i) ==
    IF i > Len(S) THEN 0 ELSE IF S[i] = NL THEN i ELSE IndexOfNL(S, i + 1)

\* s.split('\n')[0]
firstLine(S) ==
    LET n == IndexOfNL(S, 1) IN IF n = 0 THEN S ELSE SubSeq(S, 1, n - 1)

\* The last newline among lexemes a..b (0: none).
LastNLIn(S, a, b) ==
    LET X == {j \in a..b : At(S, j) = NL} IN IF X = {} THEN 0 ELSE Max(X)

\* [A-Z][A-Z] (and [A-Z]{2,}) at lexeme i.
Upper2At(S, i) ==
    /\ At(S, i) \in StartsUpper
    /\ \/ UpperPrefixLen(S[i]) >= 2
       \/ TokLen(S[i]) = 1 /\ At(S, i + 1) \in StartsUpper

\* The characters, and the lexemes touched, of the longest run of [A-Z\s]
\* that starts at lexeme i.
RECURSIVE CapsRunChars(_, _)
CapsRunChars(S, i) ==
    IF i > Len(S) THEN 0
    ELSE LET p == CapsWsPrefixLen(S[i])
         IN  IF p = TokLen(S[i]) THEN p + CapsRunChars(S, i + 1) ELSE p

RECURSIVE CapsRunToks(_, _)
CapsRunToks(S, i) ==
    IF i > Len(S) THEN 0
    ELSE LET p == CapsWsPrefixLen(S[i])
         IN  IF p = TokLen(S[i]) THEN 1 + CapsRunToks(S, i + 1)
             ELSE IF p > 0 THEN 1 ELSE 0

(***************************************************************************)
(* Regular expressions.  An expression of the two schema tables is written *)
(* as the sequence of its elements; MatchAtoms follows it from lexeme i    *)
(* and returns the index after the match, or 0 when it fails.              *)
(***************************************************************************)
AtomClass(a) ==
    CASE a = "digits" -> Digits
      [] a = "upper1" -> Upper1
      [] a = "lower1" -> Lower1
      [] a = "romanU" -> RomanU
      [] a = "romanL" -> RomanL
      [] a = "ivx" -> IVX
      [] a = "parenNum" -> ParenNum
      [] a = "parenAlpha" -> ParenAlpha
      [] a = "parenRomanU" -> ParenRomanU
      [] a = "parenRomanL" -> ParenRomanL
      [] a = "sectionI" -> SectionI
      [] a = "articleCS" -> ArticleCS
      [] a = "articleI" -> ArticleI
      [] a = "articleUpper" -> ArticleUpper
      [] a = "sectionOrArticleI" -> SectionI \cup ArticleI
      [] a = "dot" -> {"."}
      [] a = "rparen" -> {")"}
      [] a = "zero" -> {"0"}

AtomStep(a, S, i) ==
    CASE a = "ws+" -> IF At(S, i) \in Ws THEN SkipWs(S, i) ELSE 0
      [] a = "ws*" -> SkipWs(S, i)
      [] a = "cap" -> IF At(S, i) \in StartsUpper THEN i ELSE 0
      [] a = "cap2" -> IF Upper2At(S, i) THEN i ELSE 0
      [] a = "notDigit" -> IF At(S, i) \in StartsDigit THEN 0 ELSE i
      [] a = "digitPrefix" -> IF At(S, i) \in StartsDigit THEN i + 1 ELSE 0
      [] a = "ivxPrefix" -> IF At(S, i) \in StartsIVX THEN i + 1 ELSE 0
      [] a = "ivxOrDigitPrefix" ->
            IF At(S, i) \in StartsIVX \cup StartsDigit THEN i + 1 ELSE 0
      [] a = "ivxOrDigitPrefixI" ->
            IF At(S, i) \in StartsIVXi \cup StartsDigit THEN i + 1 ELSE 0
      [] OTHER -> IF At(S, i) \in AtomClass(a) THEN i + 1 ELSE 0

RECURSIVE MatchAtoms(_, _, _)
MatchAtoms(atoms, S, i) ==
    IF atoms = <<>> \/ i = 0 THEN i
    ELSE MatchAtoms(Tail(atoms), S, AtomStep(Head(atoms), S, i))

\* A regular-expression value: the table it comes from and its key there.
\* Null is JavaScript's null; an "Object" is a value that is not a RegExp.
RegExp(table, key) == [type |-> "RegExp", table |-> table, key |-> key]
Null == [type |-> "null", table |-> "", key |-> ""]
Truthy(v) == v.type # "null"

\* The properties every object literal inherits from Object.prototype:
\* patterns[k] is a function (or the prototype object) for these keys.
ObjectPrototypeKeys ==
    {"constructor", "toString", "valueOf", "hasOwnProperty", "isPrototypeOf",
     "propertyIsEnumerable", "toLocaleString", "__proto__"}

SchemaRegexKeys ==
    {"numeric", "numeric-paren", "decimal", "alpha-upper", "alpha-lower",
     "alpha-lower-paren", "roman-upper", "roman-lower", "roman-upper-paren",
     "roman-lower-paren", "paren-numeric", "paren-alpha", "paren-roman-upper",
     "paren-roman-lower", "section", "section-decimal", "article",
     "decimal-zero", "decimal-triple"}

SchemaSplitRegexKeys == SchemaRegexKeys \ {"decimal-triple"}

\* patterns[schemaType] || null
Lookup(keys, table, schemaType) ==
    IF schemaType \in keys THEN RegExp(table, schemaType)
    ELSE IF schemaType \in ObjectPrototypeKeys
         THEN [type |-> "Object", table |-> "Object.prototype", key |-> schemaType]
         ELSE Null

getSchemaRegex(schemaType) == Lookup(SchemaRegexKeys, "header", schemaType)

getSchemaSplitRegex(schemaType) == Lookup(SchemaSplitRegexKeys, "split", schemaType)

\* The header expressions, after their ^.
HeaderAtoms(key) ==
    CASE key = "numeric" -> <<"digits", "dot", "ws+">>
      [] key = "numeric-paren" -> <<"digits", "rparen", "ws+">>
      [] key = "decimal" -> <<"digits", "dot", "digits", "ws+">>
      [] key = "alpha-upper" -> <<"upper1", "dot", "ws+">>
      [] key = "alpha-lower" -> <<"lower1", "dot", "ws+">>
      [] key = "alpha-lower-paren" -> <<"lower1", "rparen", "ws+">>
      [] key = "roman-upper" -> <<"romanU", "dot", "ws+">>
      [] key = "roman-lower" -> <<"romanL", "dot", "ws+">>
      [] key = "roman-upper-paren" -> <<"romanU", "rparen", "ws+">>
      [] key = "roman-lower-paren" -> <<"romanL", "rparen", "ws+">>
      [] key = "paren-numeric" -> <<"parenNum", "ws+">>
      [] key = "paren-alpha" -> <<"parenAlpha", "ws+">>
      [] key = "paren-roman-upper" -> <<"parenRomanU", "ws+">>
      [] key = "paren-roman-lower" -> <<"parenRomanL", "ws+">>
      [] key = "section" -> <<"sectionI", "ws+", "digits", "dot">>
      [] key = "section-decimal" -> <<"sectionI", "ws+", "digits", "dot", "notDigit">>
      [] key = "article" -> <<"articleI", "ws+", "ivxOrDigitPrefixI">>
      [] key = "decimal-zero" -> <<"digits", "dot", "zero", "ws+">>
      [] key = "decimal-triple" -> <<"digits", "dot", "digits", "dot", "digits", "ws+">>

\* The header expression used when the schema type has no table entry.
DefaultHeaderAtoms == <<"romanU", "dot", "ws+", "cap">>

\* A split expression: what it consumes or looks behind at ("pre"), the
\* lookahead after that, and the capturing groups inside the lookahead.
SplitPattern(rx) ==
    CASE rx.table = "split" ->
           [pre |-> IF rx.key \in {"section", "section-decimal"} THEN "LB2" ELSE "LB",
            look |-> CASE rx.key = "numeric" -> <<"digits", "dot", "ws+", "cap">>
                       [] rx.key = "numeric-paren" -> <<"digits", "rparen", "ws+", "cap">>
                       [] rx.key = "decimal" -> <<"digits", "dot", "digits", "ws+", "cap">>
                       [] rx.key = "alpha-upper" -> <<"upper1", "dot", "ws+", "cap">>
                       [] rx.key = "alpha-lower" -> <<"lower1", "dot", "ws+", "cap">>
                       [] rx.key = "alpha-lower-paren" -> <<"lower1", "rparen", "ws+", "cap">>
                       [] rx.key = "roman-upper" -> <<"romanU", "dot", "ws+", "cap">>
                       [] rx.key = "roman-lower" -> <<"romanL", "dot", "ws+">>
                       [] rx.key = "roman-upper-paren" -> <<"romanU", "rparen", "ws+", "cap">>
                       [] rx.key = "roman-lower-paren" -> <<"romanL", "rparen", "ws+">>
                       [] rx.key = "paren-numeric" -> <<"parenNum", "ws+">>
                       [] rx.key = "paren-alpha" -> <<"parenAlpha", "ws+">>
                       [] rx.key = "paren-roman-upper" -> <<"parenRomanU", "ws+">>
                       [] rx.key = "paren-roman-lower" -> <<"parenRomanL", "ws+">>
                       [] rx.key = "section" -> <<"sectionI", "ws+", "digits", "dot">>
                       [] rx.key = "section-decimal" ->
                             <<"sectionI", "ws+", "digits", "dot", "notDigit">>
                       [] rx.key = "article" -> <<"articleCS", "ws+", "ivxOrDigitPrefix">>
                       [] rx.key = "decimal-zero" -> <<"digits", "dot", "zero", "ws+", "cap">>,
            captures |-> IF rx.key \in {"roman-upper", "roman-lower", "roman-upper-paren",
                                        "roman-lower-paren"}
                         THEN 1 ELSE 0]
      [] rx.table = "detect" ->
           [pre |-> "NL",
            look |-> CASE rx.key = "roman" -> <<"romanU", "dot", "ws+", "cap">>
                       [] rx.key = "section" -> <<"sectionI", "ws+", "digits", "dot">>
                       [] rx.key = "article" -> <<"articleI", "ws+", "digitPrefix">>
                       [] rx.key = "article-roman" -> <<"articleUpper", "ws+", "ivxPrefix">>
                       [] rx.key = "numeric" -> <<"digits", "dot", "ws+", "cap2">>,
            captures |-> IF rx.key = "roman" THEN 1 ELSE 0]
      [] rx.table = "fallback" ->
           [pre |-> "NL",
            look |-> CASE rx.key = "romanCaps" -> <<"ivx", "dot", "ws+", "cap2">>
                       [] rx.key = "section" -> <<"sectionOrArticleI", "ws+", "digits", "dot">>
                       [] rx.key = "numericCaps" -> <<"digits", "dot", "ws+", "cap2">>,
            captures |-> 0]

\* RegExp.prototype.test of a header expression on a string.
test(rx, S) ==
    IF rx.table = "default" THEN MatchAtoms(DefaultHeaderAtoms, S, 1) # 0
    ELSE MatchAtoms(HeaderAtoms(rx.key), S, 1) # 0

\* (?<=\.\s{1,3}) | (?<=;\s{1,3}), and for the Section patterns (?<=\s{2,}):
\* what precedes lexeme q.  No lexeme is a semicolon.
LookBehind(pre, S, q) ==
    \/ \E k \in 1..3 :
          /\ At(S, q - k - 1) = DOT
          /\ \A j \in (q - k)..(q - 1) : S[j] \in Ws
    \/ pre = "LB2" /\ At(S, q - 1) \in Ws /\ At(S, q - 2) \in Ws

\* The split expression with pattern pat tried at lexeme q (as split does,
\* sticky): the index after the match, or 0.  The alternative \n\s* is
\* tried first.
SplitMatch(pat, S, q) ==
    IF S[q] = NL /\ MatchAtoms(pat.look, S, SkipWs(S, q + 1)) # 0 THEN SkipWs(S, q + 1)
    ELSE IF pat.pre # "NL" /\ LookBehind(pat.pre, S, q) /\ MatchAtoms(pat.look, S, q) # 0
         THEN q
         ELSE 0

\* String.prototype.split with a RegExp: the pieces between the matches,
\* with each match's captured groups spliced in; a match that ends where
\* the current piece starts is skipped.  p: first lexeme of the current
\* piece, q: where the expression is tried next, e: the end of the match
\* at q (0: none).
RECURSIVE SplitFrom(_, _, _, _)
RECURSIVE SplitStep(_, _, _, _, _)
SplitStep(pat, S, p, q, e) ==
    IF e = 0 \/ e = p THEN SplitFrom(pat, S, p, q + 1)
    ELSE <<SubSeq(S, p, q - 1)>>
           \o (IF pat.captures = 1 THEN <<<<S[e]>>>> ELSE <<>>)
           \o SplitFrom(pat, S, e, e)

SplitFrom(pat, S, p, q) ==
    IF q > Len(S) THEN <<SubSeq(S, p, Len(S))>>
    ELSE SplitStep(pat, S, p, q, SplitMatch(pat, S, q))

\* text.split(separator).  A separator that is not a RegExp is converted to
\* a string ("function Object() { [native code] }", ...), which occurs in
\* no text over the lexemes.
split(S, rx) == IF rx.type = "RegExp" THEN SplitFrom(SplitPattern(rx), S, 1, 1) ELSE <<S>>

(***************************************************************************)
(* removePageNumbers.                                                      *)
(***************************************************************************)
\* \d+\. at lexeme j
DigitsDotAt(S, j) == At(S, j) \in Digits /\ At(S, j + 1) = DOT

\* (\d{1,4})\s*\n with the number at lexeme i: the index of the newline the
\* greedy \s*\n ends on (the last one of the whitespace run), or 0.
NumberLineEnd(S, i) ==
    IF At(S, i) \in Digits14 THEN LastNLIn(S, i + 1, SkipWs(S, i + 1) - 1) ELSE 0

\* Patterns 1, 2, 3 and 7 tried at lexeme q: the index after the match, or
\* 0.  Patterns 4, 5 and 6 need "Page", a bracketed number or a dash, which
\* no lexeme holds: they match nowhere.
PageNumberMatch(p, S, q) ==
    LET i == SkipWs(S, q + 1)
        l == NumberLineEnd(S, i)
        j == SkipWs(S, i + 1)
    IN  CASE p = 1 ->
               \* \n\s*(\d{1,4})\s*\n(?!\s*\d+\.)
               IF S[q] = NL /\ l # 0 /\ ~DigitsDotAt(S, SkipWs(S, l + 1))
               THEN l + 1 ELSE 0
          [] p = 2 ->
               \* \.\s*\n\s*(\d{1,4})\s*\n
               IF S[q] = DOT /\ LastNLIn(S, q + 1, i - 1) # 0 /\ l # 0
               THEN l + 1 ELSE 0
          [] p = 3 ->
               \* \n\s*(\d{1,4})\s*\n\s*\n\s*(THIS|WHEREAS|BETWEEN|PARTIES)
               IF /\ S[q] = NL
                  /\ At(S, i) \in Digits14
                  /\ Cardinality({k \in (i + 1)..(j - 1) : S[k] = NL}) >= 2
                  /\ At(S, j) \in StartsDocKeyword
               THEN j ELSE 0
          [] p = 7 ->
               \* \n\s*(\d{1,4})\s*\n(?=\s*[A-Z]{2,})
               IF S[q] = NL /\ l # 0 /\ Upper2At(S, SkipWs(S, l + 1))
               THEN l + 1 ELSE 0
          [] OTHER -> 0

\* What a match is replaced by ($2 of pattern 3 is the keyword itself, which
\* stays in its lexeme).
PageNumberReplacement(p) == IF p = 2 THEN <<DOT, NL, NL>> ELSE <<NL, NL>>

\* String.prototype.replace with a g expression; e is the end of the match
\* at lexeme q (0: none).
RECURSIVE replace(_, _, _)
RECURSIVE replaceStep(_, _, _, _)
replaceStep(p, S, q, e) ==
    IF e = 0 THEN <<S[q]>> \o replace(p, S, q + 1)
    ELSE PageNumberReplacement(p) \o replace(p, S, e)

replace(p, S, q) ==
    IF q > Len(S) THEN <<>> ELSE replaceStep(p, S, q, PageNumberMatch(p, S, q))

\* The index after the run of newlines that starts at lexeme q.
RECURSIVE NLRunEnd(_, _)
NLRunEnd(S, q) == IF At(S, q) = NL THEN NLRunEnd(S, q + 1) ELSE q

\* replace(/\n{3,}/g, '\n\n')
RECURSIVE collapseNewlines(_, _)
collapseNewlines(S, q) ==
    IF q > Len(S) THEN <<>>
    ELSE IF NLRunEnd(S, q) - q >= 3
         THEN <<NL, NL>> \o collapseNewlines(S, NLRunEnd(S, q))
         ELSE <<S[q]>> \o collapseNewlines(S, q + 1)

removePageNumbers(text) ==
    LET p1 == replace(1, text, 1)
        p2 == replace(2, p1, 1)
        p3 == replace(3, p2, 1)
        p4 == replace(4, p3, 1)
        p5 == replace(5, p4, 1)
        p6 == replace(6, p5, 1)
        p7 == replace(7, p6, 1)
    IN  collapseNewlines(p7, 1)

(***************************************************************************)
(* detectNumberingSchema.                                                  *)
(***************************************************************************)
DetectTypes == <<"roman", "section", "article", "article-roman", "numeric">>

\* What follows the numbering in the counting expression of a candidate,
\* at lexeme j: the index after the lexemes the match touches, or 0.
DetectTail(type, S, j) ==
    CASE j = 0 -> 0
      [] j # 0 /\ type = "roman" ->
           \* ... [A-Z][A-Z\s]
           IF At(S, j) \in StartsUpper /\ CapsRunChars(S, j) >= 2
           THEN j + (IF TokLen(S[j]) >= 2 THEN 1 ELSE 2) ELSE 0
      [] j # 0 /\ type = "numeric" ->
           \* ... [A-Z][A-Z\s]{3,}
           IF At(S, j) \in StartsUpper /\ CapsRunChars(S, j) >= 4
           THEN j + CapsRunToks(S, j) ELSE 0
      [] OTHER -> j

DetectHead(type) ==
    CASE type = "roman" -> <<"romanU", "dot", "ws+">>
      [] type = "section" -> <<"sectionI", "ws+", "digits", "dot">>
      [] type = "article" -> <<"articleI", "ws+", "digitPrefix">>
      [] type = "article-roman" -> <<"articleUpper", "ws+", "ivxPrefix">>
      [] type = "numeric" -> <<"digits", "dot", "ws+">>

\* The counting expression of a candidate tried at lexeme q: \n\s* and the
\* numbering, then DetectTail.
DetectMatch(type, S, q) ==
    IF S[q] # NL THEN 0
    ELSE DetectTail(type, S, MatchAtoms(DetectHead(type), S, SkipWs(S, q + 1)))

\* text.match(regex).length for a g expression: the matches, left to right,
\* none starting inside an earlier one; e is the end of the match at q.
RECURSIVE countMatches(_, _, _)
RECURSIVE countStep(_, _, _, _)
countStep(type, S, q, e) ==
    IF e = 0 THEN countMatches(type, S, q + 1) ELSE 1 + countMatches(type, S, e)

countMatches(type, S, q) ==
    IF q > Len(S) THEN 0 ELSE countStep(type, S, q, DetectMatch(type, S, q))

\* Line 529 with count >= maxCount: the last candidate with the highest
\* count stays.
lastBestPattern(count) ==
    IF \A k \in DOMAIN count : count[k] < 2 THEN 1
    ELSE Max({k \in DOMAIN count : \A j \in DOMAIN count : count[j] <= count[k]})

\* The loop of lines 526-534 over the counts: count > maxCount is strict,
\* so the first candidate with the highest count stays; below 2, patterns[0].
bestPattern(count) ==
    IF \A k \in DOMAIN count : count[k] < 2 THEN 1
    ELSE Min({k \in DOMAIN count : \A j \in DOMAIN count : count[j] <= count[k]})

Detected(k) == [pattern |-> RegExp("detect", DetectTypes[k]), type |-> DetectTypes[k]]

detectNumberingSchema(text) ==
    Detected(bestPattern([k \in 1..Len(DetectTypes) |-> countMatches(DetectTypes[k], text, 1)]))

(***************************************************************************)
(* extractClausesRuleBased, first half: the segmentation of the text into  *)
(* blocks.                                                                 *)
(***************************************************************************)
\* userSchema left out by the caller.
Absent == "undefined"

MinBlockLength == 10
MinPieces == 3

\* The three alternative patterns, in the order they are tried, and the
\* schema type each one sets.
Fallbacks ==
    <<[regex |-> RegExp("fallback", "romanCaps"), schemaType |-> "roman-upper"],
      [regex |-> RegExp("fallback", "section"), schemaType |-> "section"],
      [regex |-> RegExp("fallback", "numericCaps"), schemaType |-> "numeric"]>>

\* The alternative patterns tried in the reverse order: the last one that
\* yields at least 3 pieces (0: none).
LastFallback(cleanedText) ==
    LET ok == {k \in 1..Len(Fallbacks) :
                  Len(split(cleanedText, Fallbacks[k].regex)) >= MinPieces}
    IN  IF ok = {} THEN 0 ELSE Max(ok)

\* The first alternative pattern that yields at least 3 pieces (0: none).
FirstFallback(cleanedText) ==
    LET ok == {k \in 1..Len(Fallbacks) :
                  Len(split(cleanedText, Fallbacks[k].regex)) >= MinPieces}
    IN  IF ok = {} THEN 0 ELSE Min(ok)

\* Line 639: if (trimmed.length < 10) continue
skipsPiece(trimmed) == length(trimmed) < MinBlockLength

\* Line 646 without its test: every piece opens a block.
alwaysNewBlock(isMainSection, blocks) == TRUE

\* Line 646: if (isMainSection || blocks.length === 0)
startsNewBlock(isMainSection, blocks) == isMainSection \/ Len(blocks) = 0

\* Line 650 left out: a continuation piece is lost.
dropsPiece(blocks, trimmed) == blocks

\* Line 650: blocks[blocks.length - 1] += "\n\n" + trimmed
appendPiece(blocks, trimmed) == [blocks EXCEPT ![Len(blocks)] = @ \o <<NL, NL>> \o trimmed]

\* The for loop over initialBlocks (lines 637-652).
RECURSIVE mergeBlocks(_, _, _)
RECURSIVE mergePiece(_, _, _, _)
mergePiece(initialBlocks, mainHeaderRegex, blocks, trimmed) ==
    mergeBlocks(Tail(initialBlocks), mainHeaderRegex,
                IF skipsPiece(trimmed) THEN blocks
                ELSE IF startsNewBlock(test(mainHeaderRegex, firstLine(trimmed)), blocks)
                     THEN Append(blocks, trimmed)
                     ELSE appendPiece(blocks, trimmed))

mergeBlocks(initialBlocks, mainHeaderRegex, blocks) ==
    IF initialBlocks = <<>> THEN blocks
    ELSE mergePiece(initialBlocks, mainHeaderRegex, blocks, trim(Head(initialBlocks)))

\* What the first half leaves behind.  threw: mainHeaderRegex.test is not a
\* function (a TypeError), at line 588 or at line 642.
Segmented(cleanedText, primary, skippedPreamble, fallback, initialBlocks, schemaType, mainHeaderRegex, threw, blocks) ==
    [cleanedText |-> cleanedText, primary |-> primary, skippedPreamble |-> skippedPreamble,
     fallback |-> fallback, initialBlocks |-> initialBlocks, schemaType |-> schemaType,
     mainHeaderRegex |-> mainHeaderRegex, threw |-> threw, blocks |-> blocks]

\* Lines 635-654, with the header expression in force.
mergeStep(cleanedText, primary, skippedPreamble, fallback, initialBlocks, schemaType, mainHeaderRegex) ==
    IF /\ mainHeaderRegex.type # "RegExp"
       /\ \E k \in 1..Len(initialBlocks) : ~skipsPiece(trim(initialBlocks[k]))
    THEN Segmented(cleanedText, primary, skippedPreamble, fallback, initialBlocks, schemaType,
                   mainHeaderRegex, TRUE, <<>>)
    ELSE Segmented(cleanedText, primary, skippedPreamble, fallback, initialBlocks, schemaType,
                   mainHeaderRegex, FALSE, mergeBlocks(initialBlocks, mainHeaderRegex, <<>>))

\* Lines 628-631: mainHeaderRegex when the caller gave none.
headerRegexFor(mainHeaderRegex, schemaType) ==
    IF Truthy(mainHeaderRegex) THEN mainHeaderRegex
    ELSE IF Truthy(getSchemaRegex(schemaType)) THEN getSchemaRegex(schemaType)
         ELSE RegExp("default", "roman")

\* Lines 595-626, fb being the alternative pattern that is taken (0: none).
fallbackStep(cleanedText, primary, skippedPreamble, initialBlocks, schemaType, mainHeaderRegex, fb) ==
    IF fb = 0
    THEN mergeStep(cleanedText, primary, skippedPreamble, 0, initialBlocks, schemaType,
                   headerRegexFor(mainHeaderRegex, schemaType))
    ELSE mergeStep(cleanedText, primary, skippedPreamble, fb,
                   split(cleanedText, Fallbacks[fb].regex), Fallbacks[fb].schemaType,
                   headerRegexFor(mainHeaderRegex, Fallbacks[fb].schemaType))

\* Line 596: if (initialBlocks.length < 3)
alternativeStep(cleanedText, primary, skippedPreamble, initialBlocks, schemaType, mainHeaderRegex) ==
    fallbackStep(cleanedText, primary, skippedPreamble, initialBlocks, schemaType,
                 mainHeaderRegex,
                 IF Len(initialBlocks) < MinPieces THEN FirstFallback(cleanedText) ELSE 0)

\* Lines 583-592: the first piece is dropped when its first line is not a
\* main header; this is tried only with an expression from the caller's
\* schema, and throws when that is not a RegExp.
preambleStep(cleanedText, primary, schemaType, mainHeaderRegex) ==
    IF Len(primary) > 1 /\ Truthy(mainHeaderRegex)
    THEN IF mainHeaderRegex.type # "RegExp"
         THEN Segmented(cleanedText, primary, FALSE, 0, <<>>, schemaType, mainHeaderRegex,
                        TRUE, <<>>)
         ELSE IF ~test(mainHeaderRegex, firstLine(trim(primary[1])))
              THEN alternativeStep(cleanedText, primary, TRUE, Tail(primary), schemaType,
                                   mainHeaderRegex)
              ELSE alternativeStep(cleanedText, primary, FALSE, primary, schemaType,
                                   mainHeaderRegex)
    ELSE alternativeStep(cleanedText, primary, FALSE, primary, schemaType, mainHeaderRegex)

\* Lines 577-581: if (splitRegex) initialBlocks = cleanedText.split(splitRegex)
splitStep(cleanedText, splitRegex, schemaType, mainHeaderRegex) ==
    preambleStep(cleanedText,
                 IF Truthy(splitRegex) THEN split(cleanedText, splitRegex) ELSE <<>>,
                 schemaType, mainHeaderRegex)

\* Lines 570-574
autoDetect(cleanedText, detected) ==
    splitStep(cleanedText, detected.pattern, detected.type, Null)

\* Lines 558-575
schemaStep(cleanedText, userSchema) ==
    IF userSchema # Absent /\ userSchema # "none"
    THEN splitStep(cleanedText, getSchemaSplitRegex(userSchema), userSchema,
                   getSchemaRegex(userSchema))
    ELSE autoDetect(cleanedText, detectNumberingSchema(cleanedText))

\* Lines 553-654.
segment(documentText, userSchema) == schemaStep(removePageNumbers(documentText), userSchema)

(***************************************************************************)
(* normalizeText: the blank-like characters become blanks, runs of blanks  *)
(* collapse to one, every line is trimmed, and the result is trimmed.      *)
(***************************************************************************)
\* Lines 23-31: the characters written as a blank.  The tab stands for the
\* codes 0x09, 0x0B and 0x0C, the no-break space for the Unicode variants;
\* the newline and the carriage return are left alone.
SpaceLike == {TAB, SP, NBSP}

\* Lines 18-36: split('').map(...).join('')
RECURSIVE toSpaces(_)
toSpaces(S) ==
    IF S = <<>> THEN <<>>
    ELSE <<IF Head(S) \in SpaceLike THEN SP ELSE Head(S)>> \o toSpaces(Tail(S))

\* replace(/  /g, ' '): every pair of blanks becomes one, so that a run of
\* four is left as two.
RECURSIVE collapsePairs(_)
collapsePairs(S) ==
    IF Len(S) < 2 THEN S
    ELSE IF S[1] = SP /\ S[2] = SP THEN <<SP>> \o collapsePairs(Tail(Tail(S)))
         ELSE <<S[1]>> \o collapsePairs(Tail(S))

\* replace(/ +/g, ' ')
RECURSIVE collapseSpaces(_)
collapseSpaces(S) ==
    IF Len(S) < 2 THEN S
    ELSE IF S[1] = SP /\ S[2] = SP THEN collapseSpaces(Tail(S))
         ELSE <<S[1]>> \o collapseSpaces(Tail(S))

\* split('\n').map(line => line.trim()).join('\n'); n is the first newline.
RECURSIVE trimLines(_)
RECURSIVE trimLinesAt(_, _)
trimLinesAt(S, n) ==
    IF n = 0 THEN trim(S)
    ELSE trim(SubSeq(S, 1, n - 1)) \o <<NL>> \o trimLines(SubSeq(S, n + 1, Len(S)))

trimLines(S) == trimLinesAt(S, IndexOfNL(S, 1))

normalizeText(text) ==
    IF text = <<>> THEN text ELSE trim(trimLines(collapseSpaces(toSpaces(text))))

(***************************************************************************)
(* parseClauseNumber.                                                      *)
(***************************************************************************)
\* The lexemes [^\n.] does not match.
Stops == {NL, DOT}

\* The first lexeme of Stops at or after i (0: none).
RECURSIVE FirstStop(_, _)
FirstStop(S, i) ==
    IF i > Len(S) THEN 0 ELSE IF S[i] \in Stops THEN i ELSE FirstStop(S, i + 1)

\* \s*[^\n.]+?(?:\.\s*|\n\s*)(.+)$  (minOne) and \s*[^\n.]*?(?:...)(.+)$ tried
\* at lexeme a: the index of the terminating period or newline, or 0.  The
\* greedy \s* ends at m first and gives lexemes back one at a time; the lazy
\* class runs from j to the first stop after it, which must leave a
\* character for (.+).
TitleStop(S, a, minOne) ==
    LET m == SkipWs(S, a)
        T(j) == IF At(S, j) \in Stops THEN (IF minOne THEN 0 ELSE j)
                ELSE FirstStop(S, j + 1)
        ok == {j \in a..m : j <= Len(S) /\ T(j) # 0 /\ T(j) < Len(S)}
    IN  IF ok = {} THEN 0 ELSE T(Max(ok))

\* (?:\d+|[IVX]+|[A-Z])\. at the start
NumberPrefix(S) == At(S, 1) \in Digits \cup IVX \cup Upper1 /\ At(S, 2) = DOT

\* (?:Section|Article|ARTICLE|Clause)\s+(?:\d+|[IVX]+) under the i flag: the
\* index after the number, or 0.
SectionPrefix(S) ==
    LET k == SkipWs(S, 2)
    IN  IF /\ At(S, 1) \in SectionI \cup ArticleI \cup ClauseI
           /\ At(S, 2) \in Ws
           /\ At(S, k) \in StartsDigit \cup StartsIVXi
        THEN k + 1 ELSE 0

\* ^([A-Z][A-Z\s]{3,50})(?:\.\s*|\n\s*)(.+)$ : the index of the terminator
\* the greedy class ends at, or 0.
AllCapsStop(S) ==
    LET ok == {e \in 2..(Len(S) - 1) :
                  /\ S[e] \in Stops
                  /\ \A i \in 1..(e - 1) : CapsWsPrefixLen(S[i]) = TokLen(S[i])
                  /\ length(SubSeq(S, 1, e - 1)) \in 4..51}
    IN  IF At(S, 1) \in StartsUpper /\ ok # {} THEN Max(ok) ELSE 0

Parsed(pattern, clause_no, body_text) ==
    [pattern |-> pattern, clause_no |-> clause_no, body_text |-> body_text]

\* Pattern 3 once ^((?:\d+|[IVX]+|[A-Z])\.)\s*(.+)$ has matched, g2 being
\* the second group and n the lexeme of its first newline (0: none).
simpleNumberLine(number, g2, n) ==
    IF /\ n # 0 /\ offset(g2, n) > 0 /\ offset(g2, n) < 100
       /\ length(trim(SubSeq(g2, 1, n - 1))) < 80
       /\ length(trim(SubSeq(g2, n, Len(g2)))) > 0
    THEN Parsed(3, <<number, DOT, SP>> \o trim(SubSeq(g2, 1, n - 1)),
                trim(SubSeq(g2, n, Len(g2))))
    ELSE Parsed(3, <<number, DOT>>, trim(g2))

simpleNumberGroup(number, g2) == simpleNumberLine(number, g2, IndexOfNL(g2, 1))

simpleNumber(S) == simpleNumberGroup(S[1], SubSeq(S, SkipWs(S, 3), Len(S)))

\* A match of pattern p that ends its title at lexeme t.
Cut(p, trimmed, t) ==
    Parsed(p, trim(SubSeq(trimmed, 1, t - 1)), trim(SubSeq(trimmed, t + 1, Len(trimmed))))

\* Pattern 2 from the index a2 after the number; \.? is greedy: the period
\* is taken first and given back second.
sectionStop(trimmed, a2) ==
    IF a2 = 0 THEN 0
    ELSE IF At(trimmed, a2) = DOT /\ TitleStop(trimmed, a2 + 1, FALSE) # 0
         THEN TitleStop(trimmed, a2 + 1, FALSE)
         ELSE TitleStop(trimmed, a2, FALSE)

\* The four patterns in turn; t1, t2 and t4 are where patterns 1, 2 and 4
\* end the title (0: no match).
firstPattern(trimmed, t1, t2, t4) ==
    IF t1 # 0 THEN Cut(1, trimmed, t1)
    ELSE IF t2 # 0 THEN Cut(2, trimmed, t2)
    ELSE IF NumberPrefix(trimmed) /\ Len(trimmed) >= 3 THEN simpleNumber(trimmed)
    ELSE IF t4 # 0 THEN Cut(4, trimmed, t4)
    ELSE Parsed(0, <<>>, trimmed)

parseTrimmed(trimmed) ==
    firstPattern(trimmed,
                 IF NumberPrefix(trimmed) THEN TitleStop(trimmed, 3, TRUE) ELSE 0,
                 sectionStop(trimmed, SectionPrefix(trimmed)),
                 AllCapsStop(trimmed))

parseClauseNumber(block) == parseTrimmed(trim(block))

(***************************************************************************)
(* cleanTitle and parseHeader.  A clause type is a string, hence a lexeme  *)
(* sequence as well: a canonical name is a sequence of one lexeme.         *)
(***************************************************************************)
\* A missing type: null and "" are both falsy, which is all the caller
\* tests.
NoType == <<>>

MaxTitleLength == 50
TruncatedTitleLength == 47

\* substring(0, n): the lexemes that end within the first n characters.  A
\* lexeme the cut falls inside is left out whole.
RECURSIVE substring(_, _)
substring(S, n) ==
    IF S = <<>> \/ TokLen(Head(S)) > n THEN <<>>
    ELSE <<Head(S)>> \o substring(Tail(S), n - TokLen(Head(S)))

\* The mappings whose key the title includes, by their rank.
mappingHits(trimmed) == UNION {TitleMappingHits(trimmed[i]) : i \in 1..Len(trimmed)}

\* Lines 868-917 left out: a title is never mapped to a canonical type.
unmappedTitle(trimmed) == trimmed

cleanTrimmed(trimmed) ==
    IF length(trimmed) > MaxTitleLength
    THEN substring(trimmed, TruncatedTitleLength) \o <<"...">>
    ELSE IF mappingHits(trimmed) # {} THEN <<TitleMapping[Min(mappingHits(trimmed))]>>
    ELSE trimmed

cleanTitle(title) == cleanTrimmed(trim(title))

\* ([0-9]+|[A-Z]|[IVX]+)\.\s+ at the start: the index after it, or 0.
HeaderNumber(S) ==
    IF At(S, 1) \in Digits \cup Upper1 \cup IVX /\ At(S, 2) = DOT /\ At(S, 3) \in Ws
    THEN SkipWs(S, 3) ELSE 0

\* (?:\n|\.|\s{2,}|$|(?=\s+[0-9]+\.[0-9]+)) at lexeme e
TitleEnd(S, e) ==
    \/ e = Len(S) + 1
    \/ At(S, e) \in Stops
    \/ At(S, e) \in Ws /\ At(S, e + 1) \in Ws
    \/ /\ At(S, e) \in Ws
       /\ At(S, SkipWs(S, e)) \in Digits
       /\ At(S, SkipWs(S, e) + 1) = DOT
       /\ At(S, SkipWs(S, e) + 2) \in StartsDigit

\* ([A-Z][A-Za-z\s,\/\(\)]{3,100}) from lexeme m, greedy: the index after the
\* title, or 0.
NumberedTitleEnd(S, m) ==
    LET ok == {e \in (m + 1)..(Len(S) + 1) :
                  /\ \A i \in m..(e - 1) : TitlePrefixLen(S[i]) = TokLen(S[i])
                  /\ length(SubSeq(S, m, e - 1)) \in 4..101
                  /\ TitleEnd(S, e)}
    IN  IF m # 0 /\ At(S, m) \in StartsUpper /\ ok # {} THEN Max(ok) ELSE 0

\* ^([A-Z\s]{4,})(?:\n|$) : the index after the title, or 0.
AllCapsTitleEnd(S) ==
    LET ok == {e \in 2..(Len(S) + 1) :
                  /\ e = Len(S) + 1 \/ S[e] = NL
                  /\ \A i \in 1..(e - 1) : CapsWsPrefixLen(S[i]) = TokLen(S[i])
                  /\ length(SubSeq(S, 1, e - 1)) >= 4}
    IN  IF ok # {} THEN Max(ok) ELSE 0

\* potTitle.length > 2 && potTitle.length < 100
PotentialTitle(potTitle) == length(potTitle) > 2 /\ length(potTitle) < 100

\* The text from lexeme m to the first period or newline, trimmed.
lineTitle(block, m, stop) ==
    trim(SubSeq(block, m, (IF stop = 0 THEN Len(block) + 1 ELSE stop) - 1))

\* ^([0-9]+|[A-Z]|[IVX]+)\.\s+([^\n.]+)(?:\n|\.|$) : the second group,
\* trimmed ("" without a match), m being the index after the number.
simpleTitle(block, m) ==
    IF m = 0 \/ At(block, m) \in Stops THEN <<>>
    ELSE lineTitle(block, m, FirstStop(block, m))

\* ^(?:Section|Article|Clause)\s+[0-9A-ZIVX]+\.?\s*([^\n.]+)?(?:\n|\.|$)
\* under the i flag: the group, trimmed ("" when it is missing).  s is the
\* index after the number, its period and the whitespace.
sectionTitleAt(block, s) ==
    IF s > Len(block) \/ At(block, s) \in Stops THEN <<>>
    ELSE lineTitle(block, s, FirstStop(block, s))

sectionTitleFrom(block, k) ==
    IF At(block, k) \in AlnumUpperI
    THEN sectionTitleAt(block, SkipWs(block, IF At(block, k + 1) = DOT THEN k + 2 ELSE k + 1))
    ELSE <<>>

sectionTitle(block) ==
    IF At(block, 1) \in SectionI \cup ArticleI \cup ClauseI /\ At(block, 2) \in Ws
    THEN sectionTitleFrom(block, SkipWs(block, 2))
    ELSE <<>>

\* The four patterns in turn: e1 and e3 are where the first and the last end
\* their title (0: no match).
firstHeader(block, m, e1, simple, section, e3) ==
    IF e1 # 0 THEN cleanTitle(SubSeq(block, m, e1 - 1))
    ELSE IF PotentialTitle(simple) THEN cleanTitle(simple)
    ELSE IF PotentialTitle(section) THEN cleanTitle(section)
    ELSE IF e3 # 0 THEN cleanTitle(SubSeq(block, 1, e3 - 1))
    ELSE NoType

headerFrom(block, m) ==
    firstHeader(block, m, NumberedTitleEnd(block, m), simpleTitle(block, m),
                sectionTitle(block), AllCapsTitleEnd(block))

\* The title, or NoType for null.
parseHeader(block) == headerFrom(block, HeaderNumber(block))

(***************************************************************************)
(* detectClauseType.                                                       *)
(***************************************************************************)
First200 == 200
VeryEarly == 50
ShortBlock == 1500

\* The keys k with a hit <<k, end>> of table H in a lexeme, the occurrence
\* ending within the first n characters of S.
EarlyHitsWithin(S, n) ==
    UNION {{x[1] : x \in {y \in EarlyHits(S[i]) : offset(S, i) + y[2] <= n}} : i \in 1..Len(S)}

KeywordHitsWithin(S, n) ==
    UNION {{x[1] : x \in {y \in KeywordHits(S[i]) : offset(S, i) + y[2] <= n}} : i \in 1..Len(S)}

\* A scan with the very early tests as a fallback: the first keyword rule
\* with a hit in the first 200 characters, and the two very early tests
\* when there is none.
keywordsBeforeMarkers(veryEarly, first200Chars) ==
    IF first200Chars # {} THEN <<KeywordType[Min(first200Chars)]>>
    ELSE IF "between" \in veryEarly /\ "party" \in veryEarly THEN <<"Parties">>
    ELSE IF "agreement" \in veryEarly /\ ({"made", "dated"} \cap veryEarly # {})
         THEN <<"Document Name">>
    ELSE NoType

\* Lines 927-965: the two very early tests, then the first keyword rule
\* with a hit in the first 200 characters.
keywordScan(veryEarly, first200Chars) ==
    IF "between" \in veryEarly /\ "party" \in veryEarly THEN <<"Parties">>
    ELSE IF "agreement" \in veryEarly /\ ({"made", "dated"} \cap veryEarly # {})
         THEN <<"Document Name">>
    ELSE IF first200Chars # {} THEN <<KeywordType[Min(first200Chars)]>>
    ELSE NoType

keywordStage(text) ==
    keywordScan(EarlyHitsWithin(text, VeryEarly), KeywordHitsWithin(text, First200))

\* Lines 968-974: the first canonical type name found anywhere in a block
\* of under 1500 characters.
canonicalLookup(text, anywhere) ==
    IF length(text) < ShortBlock /\ anywhere # {}
    THEN <<commonClauseTypes[Min(anywhere)]>>
    ELSE NoType

canonicalStage(text) ==
    canonicalLookup(text, UNION {CommonTypeHits(text[i]) : i \in 1..Len(text)})

detectClauseType(text) ==
    IF keywordStage(text) # NoType THEN keywordStage(text) ELSE canonicalStage(text)

(***************************************************************************)
(* Repository matching.  A score is a fraction of integers.                *)
(***************************************************************************)
Ratio(num, den) == [num |-> num, den |-> den]
Zero == Ratio(0, 1)
Less(x, y) == x.num * y.den < y.num * x.den

\* size of intersection / size of union, 0 when either set is empty
Jaccard(A, B) ==
    IF A = {} \/ B = {} THEN Zero
    ELSE Ratio(Cardinality(A \cap B), Cardinality(A \cup B))

\* toLowerCase().replace(/[^\w\s]/g, ' ').split(/\s+/): the words of a text
RECURSIVE words(_)
words(S) == IF S = <<>> THEN <<>> ELSE TokWords(Head(S)) \o words(Tail(S))

calculateTextSimilarity(text1, text2) ==
    Jaccard(UNION {LongWords(text1[i]) : i \in 1..Len(text1)},
            UNION {LongWords(text2[i]) : i \in 1..Len(text2)})

NGrams(w, n) == {SubSeq(w, i, i + n - 1) : i \in 1..(Len(w) - n + 1)}

getNGrams(text, n) == NGrams(words(text), n)

calculateNGramSimilarity(text1, text2, n) == Jaccard(getNGrams(text1, n), getNGrams(text2, n))

\* wordSim * 0.35 + ngramSim * 0.65
Weighted(wordSim, ngramSim) ==
    Ratio(35 * wordSim.num * ngramSim.den + 65 * ngramSim.num * wordSim.den,
          100 * wordSim.den * ngramSim.den)

TypeMatchScore(clauseText, repoText) ==
    Weighted(calculateTextSimilarity(clauseText, repoText),
             calculateNGramSimilarity(clauseText, repoText, 2))

GenericTypes == {<<"General Clause">>, <<"Other">>}
MinRepoTextLength == 30
DefaultThreshold == Ratio(12, 100)
PreferRepoScore == Ratio(20, 100)
SubclauseRepoScore == Ratio(15, 100)

NoMatch == [found |-> FALSE, clauseType |-> NoType, score |-> Zero, matchedClauseId |-> ""]

\* groupClausesByType: the types in the order of their first clause.
RECURSIVE groupTypes(_, _)
groupTypes(clauses, seen) ==
    IF clauses = <<>> THEN <<>>
    ELSE IF Head(clauses).clause_type \in seen THEN groupTypes(Tail(clauses), seen)
         ELSE <<Head(clauses).clause_type>>
                \o groupTypes(Tail(clauses), seen \cup {Head(clauses).clause_type})

\* The inner loop: the first clause of the type with the highest score.
RECURSIVE maxOfType(_, _, _, _)
RECURSIVE maxStep(_, _, _, _, _)
maxStep(clauseText, clauses, clauseType, best, score) ==
    maxOfType(clauseText, Tail(clauses), clauseType,
              IF Less(best.score, score)
              THEN [best EXCEPT !.score = score, !.matchedClauseId = Head(clauses).id]
              ELSE best)

maxOfType(clauseText, clauses, clauseType, best) ==
    IF clauses = <<>> THEN best
    ELSE IF /\ Head(clauses).clause_type = clauseType
            /\ length(Head(clauses).clause_text) >= MinRepoTextLength
         THEN maxStep(clauseText, clauses, clauseType, best,
                      TypeMatchScore(clauseText, Head(clauses).clause_text))
         ELSE maxOfType(clauseText, Tail(clauses), clauseType, best)

\* The outer loop over the groups; m is the best clause of the first one.
RECURSIVE bestOfTypes(_, _, _, _, _)
RECURSIVE bestStep(_, _, _, _, _, _)
bestStep(clauseText, repositoryClauses, types, threshold, bestMatch, m) ==
    bestOfTypes(clauseText, repositoryClauses, Tail(types), threshold,
                IF /\ Head(types) \notin GenericTypes
                   /\ ~Less(m.score, threshold)
                   /\ ~bestMatch.found \/ Less(bestMatch.score, m.score)
                THEN [m EXCEPT !.found = TRUE]
                ELSE bestMatch)

bestOfTypes(clauseText, repositoryClauses, types, threshold, bestMatch) ==
    IF types = <<>> THEN bestMatch
    ELSE bestStep(clauseText, repositoryClauses, types, threshold, bestMatch,
                  maxOfType(clauseText, repositoryClauses, Head(types),
                            [NoMatch EXCEPT !.clauseType = Head(types)]))

findBestClauseTypeMatch(clauseText, repositoryClauses, threshold) ==
    bestOfTypes(clauseText, repositoryClauses, groupTypes(repositoryClauses, {}),
                threshold, NoMatch)

(***************************************************************************)
(* Miscellaneous / general sections.                                       *)
(***************************************************************************)
isMiscellaneousOrGeneralSection(clauseNo) == \E i \in 1..Len(clauseNo) : clauseNo[i] \in MiscWord

detectMiscellaneousSubclauseType(text) ==
    LET terms == UNION {MiscTerms(text[i]) : i \in 1..Len(text)}
        has(term) == term \in terms
    IN  IF \/ has("governing law")
           \/ has("state") /\ has("laws")
           \/ has("construed") /\ has("laws")
           \/ has("governed by the laws")
        THEN <<"Governing Law">>
        ELSE IF has("counterpart") THEN <<"Counterparts">>
        ELSE IF has("amended") \/ has("modified") \/ has("amendment") \/ has("modification")
             THEN <<"Modification">>
        ELSE IF \/ has("entire agreement")
                \/ has("entire understanding")
                \/ has("constitutes the entire") /\ has("agreement")
             THEN <<"Entire Agreement">>
        ELSE IF \/ has("severability")
                \/ has("severable")
                \/ has("invalid") /\ has("provision")
                \/ has("unenforceable") /\ has("provision")
             THEN <<"Severability">>
        ELSE IF has("waiver") \/ has("waive") THEN <<"Waiver">>
        ELSE IF has("notice") /\ (has("shall be") \/ has("given")) THEN <<"Notice Period">>
        ELSE IF has("assignment") \/ has("assign") THEN <<"Anti-Assignment">>
        ELSE IF has("successors") /\ has("assigns") THEN <<"Anti-Assignment">>
        ELSE NoType

\* (?=(?:Section\s+)?\d+\.\d+[\s.:]) at the boundary before lexeme q
SectionDecimalAt(S, q) ==
    LET Decimal(i) == /\ At(S, i) \in Digits
                      /\ At(S, i + 1) = DOT
                      /\ At(S, i + 2) \in Digits
                      /\ At(S, i + 3) \in Ws \cup {DOT}
    IN  \/ Decimal(q)
        \/ At(S, q) \in SectionI /\ At(S, q + 1) \in Ws /\ Decimal(SkipWs(S, q + 1))

\* (?=\([a-z0-9]\)\s+) under the i flag
ParenAt(S, q) == At(S, q) \in ParenAlnumI /\ At(S, q + 1) \in Ws

\* \n\s*\n at lexeme q: the index after the match, or 0
BlankLineMatch(S, q) ==
    LET l == LastNLIn(S, q + 1, SkipWs(S, q + 1) - 1)
    IN  IF S[q] = NL /\ l # 0 THEN l + 1 ELSE 0

\* split with one of the three expressions of the expander: p is the first
\* lexeme of the current piece, q where the expression is tried next.  The
\* two lookaheads are empty matches, which split never takes at p.
RECURSIVE subSplit(_, _, _, _)
RECURSIVE subSplitStep(_, _, _, _, _)
subSplitStep(strategy, S, p, q, e) ==
    IF e = 0 \/ e = p THEN subSplit(strategy, S, p, q + 1)
    ELSE <<SubSeq(S, p, q - 1)>> \o subSplit(strategy, S, e, e)

subSplit(strategy, S, p, q) ==
    IF q > Len(S) THEN <<SubSeq(S, p, Len(S))>>
    ELSE subSplitStep(strategy, S, p, q,
                      CASE strategy = "sectionDecimal" -> IF SectionDecimalAt(S, q) THEN q ELSE 0
                        [] strategy = "paren" -> IF ParenAt(S, q) THEN q ELSE 0
                        [] strategy = "blankLine" -> BlankLineMatch(S, q))

\* .filter(b => b.trim().length > n)
RECURSIVE longerThan(_, _)
longerThan(pieces, n) ==
    IF pieces = <<>> THEN <<>>
    ELSE (IF length(trim(Head(pieces))) > n THEN <<Head(pieces)>> ELSE <<>>)
           \o longerThan(Tail(pieces), n)

MinSubPieces == 2
MinSplitPiece == 20
MinBlankLinePiece == 30
MinSubBlock == 30

\* Lines 430-445: the pieces the expander goes on to classify.
firstGoodSplit(bySection, byParen, byBlankLine) ==
    IF Len(bySection) >= MinSubPieces THEN bySection
    ELSE IF Len(byParen) >= MinSubPieces THEN byParen
    ELSE byBlankLine

subBlocksOf(blockText) ==
    firstGoodSplit(longerThan(subSplit("sectionDecimal", blockText, 1, 1), MinSplitPiece),
                   longerThan(subSplit("paren", blockText, 1, 1), MinSplitPiece),
                   longerThan(subSplit("blankLine", blockText, 1, 1), MinBlankLinePiece))

ExtractedClause(clause_type, clause_no, clause_text, matched, score) ==
    [clause_type |-> clause_type,
     clause_no |-> clause_no,
     clause_text |-> clause_text,
     preferred_position |-> <<"Standard legal position for ">> \o clause_type,
     party_role |-> "Neutral",
     complexity |-> 5,
     balance |-> 0,
     matched_from_repository |-> matched,
     similarity_score |-> score]

\* Line 477 with the local reference of the piece in place of the parent's.
localReference(parentClauseNo, trimmedSub) == <<Head(trimmedSub)>>

\* Line 477: the clause_no a sub-clause is given.
subclauseNo(parentClauseNo, trimmedSub) == parentClauseNo

\* Lines 456-462: the repository decides when no term did.
subclauseRepoType(subclauseType, repositoryClauses, repoMatch) ==
    IF repoMatch.found /\ Less(SubclauseRepoScore, repoMatch.score)
    THEN repoMatch.clauseType
    ELSE subclauseType

\* Lines 453-462: the type of one piece.
subclauseTypeOf(trimmedSub, repositoryClauses) ==
    IF detectMiscellaneousSubclauseType(trimmedSub) = NoType /\ Len(repositoryClauses) > 0
    THEN subclauseRepoType(NoType, repositoryClauses,
                           findBestClauseTypeMatch(trimmedSub, repositoryClauses,
                                                   DefaultThreshold))
    ELSE detectMiscellaneousSubclauseType(trimmedSub)

\* Lines 464-488 without the test of line 465: a piece is pushed whether it
\* has a type or not.
untypedSubclause(parentClauseNo, trimmedSub, subclauseType) ==
    IF length(trimmedSub) >= MinSubBlock
    THEN <<ExtractedClause(subclauseType, subclauseNo(parentClauseNo, trimmedSub),
                           normalizeText(trimmedSub), FALSE, Zero)>>
    ELSE <<>>

\* Lines 464-488.  The text kept when the piece begins with a reference
\* "8.3" is the whole match, which is the whole piece.
subclause(parentClauseNo, trimmedSub, subclauseType) ==
    IF length(trimmedSub) >= MinSubBlock /\ subclauseType # NoType
    THEN <<ExtractedClause(subclauseType, subclauseNo(parentClauseNo, trimmedSub),
                           normalizeText(trimmedSub), FALSE, Zero)>>
    ELSE <<>>

subclauseOfPiece(parentClauseNo, trimmedSub, repositoryClauses) ==
    subclause(parentClauseNo, trimmedSub, subclauseTypeOf(trimmedSub, repositoryClauses))

\* The for loop of lines 449-489.
RECURSIVE subclausesOf(_, _, _)
subclausesOf(parentClauseNo, subBlocks, repositoryClauses) ==
    IF subBlocks = <<>> THEN <<>>
    ELSE subclauseOfPiece(parentClauseNo, trim(Head(subBlocks)), repositoryClauses)
           \o subclausesOf(parentClauseNo, Tail(subBlocks), repositoryClauses)

extractSubclausesFromMiscellaneous(parentClauseNo, blockText, repositoryClauses) ==
    subclausesOf(parentClauseNo, subBlocksOf(blockText), repositoryClauses)

(***************************************************************************)
(* extractClausesRuleBased, second half: the loop over the blocks.         *)
(***************************************************************************)
MinTrimmedBlock == 30
MinCleanedBlock == 20
GenericLength == 100

\* Line 664: the page-noise expression tried at lexeme q.  It needs the
\* texts "Page" and "(01/2021 v", which no lexeme holds: it matches nowhere.
pageNoiseMatch(S, q) == 0

RECURSIVE replacePageNoise(_, _)
replacePageNoise(S, q) ==
    IF q > Len(S) THEN <<>>
    ELSE IF pageNoiseMatch(S, q) = 0 THEN <<S[q]>> \o replacePageNoise(S, q + 1)
         ELSE replacePageNoise(S, pageNoiseMatch(S, q))

\* Line 674: title || detectClauseType(cleanedBlock)
titleOr(title, cleanedBlock) == IF title # NoType THEN title ELSE detectClauseType(cleanedBlock)

ruleBasedType(cleanedBlock) == titleOr(parseHeader(cleanedBlock), cleanedBlock)

\* Line 687 without its test: any repository match replaces the type.
alwaysPrefersRepository(detectedType, repoMatch) ==
    IF repoMatch.found
    THEN [detectedType |-> repoMatch.clauseType, matchedFromRepo |-> TRUE,
          similarityScore |-> repoMatch.score]
    ELSE [detectedType |-> detectedType, matchedFromRepo |-> FALSE, similarityScore |-> Zero]

\* Lines 679-694: the repository match replaces the type when there is none,
\* when it is "General Clause", or when the match scores above 0.2.
preferRepository(detectedType, repoMatch) ==
    IF /\ repoMatch.found
       /\ \/ detectedType = NoType
          \/ detectedType = <<"General Clause">>
          \/ Less(PreferRepoScore, repoMatch.score)
    THEN [detectedType |-> repoMatch.clauseType, matchedFromRepo |-> TRUE,
          similarityScore |-> repoMatch.score]
    ELSE [detectedType |-> detectedType, matchedFromRepo |-> FALSE, similarityScore |-> Zero]

repositoryStage(detectedType, cleanedBlock, repositoryClauses) ==
    preferRepository(detectedType,
                     IF Len(repositoryClauses) > 0
                     THEN findBestClauseTypeMatch(cleanedBlock, repositoryClauses,
                                                  DefaultThreshold)
                     ELSE NoMatch)

\* /shall|hereby|party|agreement/i.test(cleanedBlock)
looksLegal(cleanedBlock) == \E i \in 1..Len(cleanedBlock) : cleanedBlock[i] \in GenericMarker

\* Lines 698-700 left out: the type stays as the earlier stages left it.
keepsType(detectedType, cleanedBlock) == detectedType

\* Lines 698-700
genericFallback(detectedType, cleanedBlock) ==
    IF detectedType = NoType /\ (length(cleanedBlock) > GenericLength \/ looksLegal(cleanedBlock))
    THEN <<"General Clause">>
    ELSE detectedType

\* Line 702 without its test: every block is emitted.
emitsAnyway(detectedType) == TRUE

\* Line 702: if (detectedType)
emitsClause(detectedType) == detectedType # NoType

\* Lines 714-733 without the else branch: only sub-clauses are pushed.
onlySubclauses(extractedSubclauses, mainClause) == extractedSubclauses

\* Lines 714-733: the sub-clauses, or the main clause when there are none.
miscellaneousClauses(extractedSubclauses, mainClause) ==
    IF Len(extractedSubclauses) > 0 THEN extractedSubclauses ELSE <<mainClause>>

\* What becomes of one block (lines 659-749): the clauses it adds, and why.
Entry(block, outcome, parsed, detectedType, emitted) ==
    [block |-> block, outcome |-> outcome, clause_no |-> parsed.clause_no,
     body_text |-> parsed.body_text, detectedType |-> detectedType, emitted |-> emitted]

NotParsed == Parsed(0, <<>>, <<>>)

\* Lines 704-733
miscellaneousEntry(block, parsed, detectedType, extractedSubclauses, mainClause) ==
    Entry(block, IF Len(extractedSubclauses) > 0 THEN "expanded" ELSE "unexpanded",
          parsed, detectedType, miscellaneousClauses(extractedSubclauses, mainClause))

\* Lines 702-749
emitStep(block, cleanedBlock, parsed, detectedType, mainClause, repositoryClauses) ==
    IF ~emitsClause(detectedType) THEN Entry(block, "untyped", parsed, detectedType, <<>>)
    ELSE IF isMiscellaneousOrGeneralSection(parsed.clause_no)
         THEN miscellaneousEntry(block, parsed, detectedType,
                                 extractSubclausesFromMiscellaneous(parsed.clause_no,
                                                                    cleanedBlock,
                                                                    repositoryClauses),
                                 mainClause)
         ELSE Entry(block, "regular", parsed, detectedType, <<mainClause>>)

\* Lines 696-700, and the clause of lines 722-732 and 736-746.
typedStep(block, cleanedBlock, parsed, staged, detectedType, repositoryClauses) ==
    emitStep(block, cleanedBlock, parsed, detectedType,
             ExtractedClause(detectedType, parsed.clause_no, normalizeText(parsed.body_text),
                             staged.matchedFromRepo, staged.similarityScore),
             repositoryClauses)

stagedStep(block, cleanedBlock, parsed, staged, repositoryClauses) ==
    typedStep(block, cleanedBlock, parsed, staged,
              genericFallback(staged.detectedType, cleanedBlock), repositoryClauses)

\* Lines 667-694
classifyStep(block, cleanedBlock, repositoryClauses) ==
    stagedStep(block, cleanedBlock, parseClauseNumber(cleanedBlock),
               repositoryStage(ruleBasedType(cleanedBlock), cleanedBlock, repositoryClauses),
               repositoryClauses)

\* Lines 664-665
cleanStep(block, cleanedBlock, repositoryClauses) ==
    IF length(cleanedBlock) < MinCleanedBlock
    THEN Entry(block, "noise", NotParsed, NoType, <<>>)
    ELSE classifyStep(block, cleanedBlock, repositoryClauses)

\* Lines 659-661
trimmedStep(block, trimmedBlock, repositoryClauses, seenTexts) ==
    IF length(trimmedBlock) < MinTrimmedBlock
    THEN Entry(block, "short", NotParsed, NoType, <<>>)
    ELSE IF trimmedBlock \in seenTexts
         THEN Entry(block, "seen", NotParsed, NoType, <<>>)
         ELSE cleanStep(block, trim(replacePageNoise(trimmedBlock, 1)), repositoryClauses)

processBlock(block, repositoryClauses, seenTexts) ==
    trimmedStep(block, trim(block), repositoryClauses, seenTexts)

\* seenTexts.add(trimmedBlock) is inside if (detectedType).
Emitting == {"expanded", "unexpanded", "regular"}

RECURSIVE processBlocks(_, _, _)
RECURSIVE processNext(_, _, _, _)
processNext(blocks, repositoryClauses, seenTexts, entry) ==
    <<entry>> \o processBlocks(Tail(blocks), repositoryClauses,
                               IF entry.outcome \in Emitting
                               THEN seenTexts \cup {trim(Head(blocks))}
                               ELSE seenTexts)

processBlocks(blocks, repositoryClauses, seenTexts) ==
    IF blocks = <<>> THEN <<>>
    ELSE processNext(blocks, repositoryClauses, seenTexts,
                     processBlock(Head(blocks), repositoryClauses, seenTexts))

\* clauses.push in the order of the blocks
RECURSIVE pushed(_)
pushed(entries) == IF entries = <<>> THEN <<>> ELSE Head(entries).emitted \o pushed(Tail(entries))

\* The whole call: what the first half leaves, the fate of every block,
\* and the list returned (none when the call throws).
Returned(seg, entries) ==
    [threw |-> seg.threw, seg |-> seg, blocks |-> seg.blocks, log |-> entries,
     clauses |-> pushed(entries)]

classify(seg, repositoryClauses) ==
    Returned(seg, IF seg.threw THEN <<>> ELSE processBlocks(seg.blocks, repositoryClauses, {}))

extractClausesRuleBased(documentText, repositoryClauses, userSchema) ==
    classify(segment(documentText, userSchema), repositoryClauses)

(***************************************************************************)
(* matchClauseFromRepository: every repository clause on its own.          *)
(***************************************************************************)
MinMatchTextLength == 50

\* wordSimilarity * 0.4 + ngramSimilarity * 0.6
Combined(wordSimilarity, ngramSimilarity) ==
    Ratio(40 * wordSimilarity.num * ngramSimilarity.den
            + 60 * ngramSimilarity.num * wordSimilarity.den,
          100 * wordSimilarity.den * ngramSimilarity.den)

\* Lines 219-223
combinedScore(clauseText, repoText) ==
    Combined(calculateTextSimilarity(clauseText, repoText),
             calculateNGramSimilarity(clauseText, repoText, 3))

\* Line 225 with >= for >: a later clause with the same score replaces the
\* match.
improvesOrTies(bestMatch, score) == ~bestMatch.found \/ ~Less(score, bestMatch.score)

\* Line 225: !bestMatch || combinedScore > bestMatch.score
improves(bestMatch, score) == ~bestMatch.found \/ Less(bestMatch.score, score)

\* The loop of lines 213-232 over the clauses still to come.
RECURSIVE matchFrom(_, _, _, _)
RECURSIVE matchStep(_, _, _, _, _)
matchStep(clauseText, clauses, threshold, bestMatch, score) ==
    matchFrom(clauseText, Tail(clauses), threshold,
              IF ~Less(score, threshold) /\ improves(bestMatch, score)
              THEN [found |-> TRUE, clauseType |-> Head(clauses).clause_type,
                    score |-> score, matchedClauseId |-> Head(clauses).id]
              ELSE bestMatch)

matchFrom(clauseText, clauses, threshold, bestMatch) ==
    IF clauses = <<>> THEN bestMatch
    ELSE IF \/ length(Head(clauses).clause_text) < MinMatchTextLength
            \/ Head(clauses).clause_type \in GenericTypes
         THEN matchFrom(clauseText, Tail(clauses), threshold, bestMatch)
         ELSE matchStep(clauseText, clauses, threshold, bestMatch,
                        combinedScore(clauseText, Head(clauses).clause_text))

matchClauseFromRepository(clauseText, repositoryClauses, threshold) ==
    matchFrom(clauseText, repositoryClauses, threshold, NoMatch)

(***************************************************************************)
(* The calls.  A document is built from up to MaxSegments segments; then   *)
(* extractClausesRuleBased is called on it once, with one of the schema    *)
(* and repository arguments of Calls.                                      *)
(***************************************************************************)
VARIABLES documentText, nsegs, pc, userSchema, repositoryClauses, trace, blocks, log, clauses,
          text, normalized, clauseText, threshold, bestMatch, frames,
          detected, detectedType, parsed,
          storedClauses, storedContracts, uuids,
          now, syncTimeout, handles, timers, awaiting, inflight, isSyncing, delivered,
          mutations, sent

\* The state of a call of extractClausesRuleBased, of a direct call of
\* normalizeText, of a direct call of the two matchers, and of the calls
\* that run side by side.
extraction == <<documentText, nsegs, userSchema, trace, blocks, log, clauses>>
normalizing == <<text, normalized>>
matching == <<clauseText, threshold, bestMatch>>

\* The state of a direct call of detectNumberingSchema, of detectClauseType
\* and of parseClauseNumber.
detecting == <<detected, detectedType, parsed>>

\* The clause and contract store of database.ts: what localStorage holds
\* under the two keys, and the number of identifiers randomUUID has issued.
storing == <<storedClauses, storedContracts, uuids>>

\* The module state of googleSync.ts (syncTimeout, isSyncing), the timers
\* and requests it has under way, the status last delivered to the
\* listeners, and the record of the mutations made and the scheduled
\* requests sent.
syncing == <<now, syncTimeout, handles, timers, awaiting, inflight, isSyncing, delivered, mutations, sent>>

\* The store and its synchronisation.
services == <<storing, syncing>>

\* What the calls of the extractor, of normalizeText and of the matchers
\* leave alone.
elsewhere == <<detecting, services>>

vars == <<pc, repositoryClauses, extraction, normalizing, matching, frames, elsewhere>>

MaxSegments == 3

Numbered(n, title) == <<n, DOT, SP, title, DOT>>
bFine == <<"Fine", DOT>>
bPlain == <<"Nothing here binds anyone to do very much", DOT>>
bShall == <<"Each side shall do the work as planned", DOT>>
bSubs ==
    <<"(a)", SP, "This Agreement shall be governed by the laws of Delaware", DOT, SP,
      "(b)", SP, "Notices shall be given in writing", DOT>>

Segments ==
    {bPlain, bFine, bShall, <<"12">>,
     Numbered("1", "TERM"),
     Numbered("1", "TERM") \o <<SP>> \o bShall,
     Numbered("2", "TERM") \o <<SP>> \o bShall,
     Numbered("I", "TERM") \o <<SP>> \o bShall,
     <<"GENERAL", DOT, SP>> \o bPlain,
     Numbered("1", "GENERAL") \o <<SP>> \o bSubs,
     Numbered("1", "GENERAL") \o <<SP>> \o bShall,
     <<"ARTICLE", SP, "1", DOT, SP>> \o bShall,
     <<"Section", SP, "1", DOT, SP>> \o bShall}

\* The second TERM clause and a parenthetical piece follow on the same line,
\* everything else on a new one.
Separator(s) ==
    IF s = Numbered("2", "TERM") \o <<SP>> \o bShall \/ Head(s) \in ParenAlpha
    THEN <<SP>> ELSE <<NL>>

Schemas ==
    {Absent, "none", "numeric", "roman-upper", "paren-alpha", "article", "decimal-triple",
     "custom", "constructor"}

Repository ==
    <<[id |-> "r1", clause_type |-> <<"Insurance">>, clause_text |-> bShall],
      [id |-> "r2", clause_type |-> <<"Other">>, clause_text |-> <<>>]>>

Calls == (Schemas \X {<<>>}) \cup ({Absent, "numeric"} \X {Repository})

NotRun ==
    [cleanedText |-> <<>>, primary |-> <<>>, skippedPreamble |-> FALSE, fallback |-> 0,
     initialBlocks |-> <<>>, schemaType |-> "", mainHeaderRegex |-> Null]

NotNormalized == [once |-> <<>>, twice |-> <<>>]
\* let syncTimeout = null (googleSync.ts line 26); the handles of setTimeout
\* are positive.
NoTimeout == 0
NotDetected == [pattern |-> Null, type |-> ""]
NotMatched == [byClause |-> NoMatch, byType |-> NoMatch]

\* Nothing has been called yet.
Init ==
    /\ documentText = <<>>
    /\ nsegs = 0
    /\ pc = "input"
    /\ userSchema = Absent
    /\ repositoryClauses = <<>>
    /\ trace = NotRun
    /\ blocks = <<>>
    /\ log = <<>>
    /\ clauses = <<>>
    /\ text = <<>>
    /\ normalized = NotNormalized
    /\ clauseText = <<>>
    /\ threshold = Zero
    /\ bestMatch = NotMatched
    /\ frames = <<>>
    /\ detected = NotDetected
    /\ detectedType = NoType
    /\ parsed = NotParsed
    /\ storedClauses = <<>>
    /\ storedContracts = <<>>
    /\ uuids = 0
    /\ now = 0
    /\ syncTimeout = NoTimeout
    /\ handles = 0
    /\ timers = {}
    /\ awaiting = {}
    /\ inflight = <<>>
    /\ isSyncing = FALSE
    /\ delivered = "none"
    /\ mutations = <<>>
    /\ sent = <<>>

AddSegment(s) ==
    /\ pc = "input"
    /\ nsegs < MaxSegments
    /\ documentText' = IF nsegs = 0 THEN s ELSE documentText \o Separator(s) \o s
    /\ nsegs' = nsegs + 1
    /\ UNCHANGED <<pc, userSchema, repositoryClauses, trace, blocks, log, clauses>>
    /\ UNCHANGED <<normalizing, matching, frames, elsewhere>>

\* extractClausesRuleBased(documentText, repo, {mainClause: schema, ...}), or
\* without the third argument when schema is Absent.
Extract(schema, repo) ==
    /\ pc = "input"
    /\ \E r \in {extractClausesRuleBased(documentText, repo, schema)} :
          /\ trace' = [f \in DOMAIN NotRun |-> r.seg[f]]
          /\ blocks' = r.blocks
          /\ log' = r.log
          /\ clauses' = r.clauses
          /\ pc' = IF r.threw THEN "thrown" ELSE "returned"
    /\ userSchema' = schema
    /\ repositoryClauses' = repo
    /\ UNCHANGED <<documentText, nsegs, normalizing, matching, frames, elsewhere>>

Next ==
    \/ \E s \in Segments : AddSegment(s)
    \/ \E c \in Calls : Extract(c[1], c[2])

Spec == Init /\ [][Next]_vars

(***************************************************************************)
(* normalizeText called directly.  The argument is built one character at  *)
(* a time from Alphabet, where every lexeme is a single character; then    *)
(* the function is applied once, and once more to what it returned.        *)
(***************************************************************************)
MaxChars == 5

Alphabet == {"a", SP, TAB, NBSP, CR, NL}

AppendChar(c) ==
    /\ pc = "input"
    /\ Len(text) < MaxChars
    /\ text' = Append(text, c)
    /\ UNCHANGED <<pc, repositoryClauses, extraction, normalized, matching, frames, elsewhere>>

Normalize ==
    /\ pc = "input"
    /\ \E once \in {normalizeText(text)} :
          normalized' = [once |-> once, twice |-> normalizeText(once)]
    /\ pc' = "returned"
    /\ UNCHANGED <<repositoryClauses, extraction, text, matching, frames, elsewhere>>

NormalizeNext ==
    \/ \E c \in Alphabet : AppendChar(c)
    \/ Normalize

NormalizeSpec == Init /\ [][NormalizeNext]_vars

(***************************************************************************)
(* The two matchers called directly.  A repository of up to MaxRepo        *)
(* clauses with different ids is put together; then both matchers are     *)
(* called with one candidate text and one threshold.                       *)
(***************************************************************************)
MaxRepo == 3

bLaw == <<"This Agreement shall be governed by the laws of Delaware", DOT>>

RepoClause(id, type, clause_text) ==
    [id |-> id, clause_type |-> <<type>>, clause_text |-> clause_text]

\* Two clauses with the same text and different types, a generic one, one
\* between 30 and 50 characters, a very short one, and a longer one.
RepoClauses ==
    {RepoClause("r1", "Governing Law", bLaw),
     RepoClause("r2", "Notice Period", bLaw),
     RepoClause("r3", "Other", bLaw),
     RepoClause("r4", "Insurance", bShall),
     RepoClause("r5", "Insurance", bFine),
     RepoClause("r6", "Governing Law", bLaw \o <<SP>> \o bShall)}

Candidates == {bLaw, bShall, bPlain, bShall \o <<SP>> \o bLaw}

Thresholds == {Zero, DefaultThreshold, Ratio(15, 100), Ratio(1, 2), Ratio(1, 1)}

AddRepoClause(c) ==
    /\ pc = "input"
    /\ Len(repositoryClauses) < MaxRepo
    /\ \A i \in 1..Len(repositoryClauses) : repositoryClauses[i].id # c.id
    /\ repositoryClauses' = Append(repositoryClauses, c)
    /\ UNCHANGED <<pc, extraction, normalizing, matching, frames, elsewhere>>

Match(candidate, th) ==
    /\ pc = "input"
    /\ clauseText' = candidate
    /\ threshold' = th
    /\ bestMatch' = [byClause |-> matchClauseFromRepository(candidate, repositoryClauses, th),
                     byType |-> findBestClauseTypeMatch(candidate, repositoryClauses, th)]
    /\ pc' = "matched"
    /\ UNCHANGED <<repositoryClauses, extraction, normalizing, frames, elsewhere>>

MatchNext ==
    \/ \E c \in RepoClauses : AddRepoClause(c)
    \/ \E candidate \in Candidates, th \in Thresholds : Match(candidate, th)

MatchSpec == Init /\ [][MatchNext]_vars

(***************************************************************************)
(* Calls on the documents of the two scenarios of the specification, on a  *)
(* miscellaneous section with a piece that no term types, and on a block   *)
(* without title and keyword, with repositories that match weakly and      *)
(* strongly.                                                               *)
(***************************************************************************)
bIndemnify == <<"Each party shall indemnify the other", DOT>>
bYear == <<"This agreement lasts one year", DOT>>
bParties == <<"Both Parties keep the books for seven years", DOT>>
bNotices == <<"Notices shall be given in writing", DOT>>

hMiscellaneous == Numbered("8", "MISCELLANEOUS")
ParenPieces == {<<"(a)", SP>> \o bLaw, <<"(b)", SP>> \o bNotices, <<"(a)", SP>> \o bShall}

\* The text of the specification's first scenario.
ScenarioA ==
    Numbered("1", "INDEMNITY") \o <<SP>> \o bIndemnify \o <<NL>>
        \o Numbered("2", "TERM") \o <<SP>> \o bYear

ClassifySegments ==
    {hMiscellaneous,
     Numbered("1", "INDEMNITY") \o <<SP>> \o bIndemnify,
     Numbered("2", "TERM") \o <<SP>> \o bYear,
     bParties,
     bShall} \cup ParenPieces

\* Clauses that score between 0.12 and 0.2 against bParties and against the
\* TERM clause.
LowRepository ==
    <<RepoClause("r7", "Audit Rights", <<"Both Parties keep records of every sale made", DOT>>),
      RepoClause("r8", "Renewal Term", <<"This agreement binds each heir", DOT>>)>>

\* Clauses with the text of a piece and of a clause.
HighRepository ==
    <<RepoClause("r1", "Insurance", bShall),
      RepoClause("r9", "Expiration Date", bYear)>>

ClassifyCalls == {Absent, "numeric"} \X {<<>>, LowRepository, HighRepository}

ClassifyNext ==
    \/ \E s \in ClassifySegments : AddSegment(s)
    \/ \E c \in ClassifyCalls : Extract(c[1], c[2])

ClassifySpec == Init /\ [][ClassifyNext]_vars

(***************************************************************************)
(* Calls that run side by side.  The caller's repository list and schema   *)
(* record are shared by every invocation; an invocation's cleanedText,     *)
(* blocks, seenTexts and clauses are locals of its frame (lines 553-556,   *)
(* 633-656).  An invocation advances by the first half of the function,    *)
(* then by one iteration of the loop over its blocks at a time, and the    *)
(* steps of different invocations interleave in any order.                 *)
(***************************************************************************)
MaxInvocations == 2

Documents ==
    {Numbered("1", "TERM") \o <<SP>> \o bShall \o <<NL>> \o Numbered("1", "TERM") \o <<SP>> \o bShall,
     bParties,
     hMiscellaneous \o <<SP, "(a)", SP>> \o bLaw \o <<SP, "(b)", SP>> \o bNotices,
     ScenarioA}

Arguments == {Absent, "numeric", "constructor"} \X {<<>>, HighRepository}

\* The frame of an invocation that has just been entered.
NewFrame(doc) ==
    [documentText |-> doc, at |-> "called", blocks |-> <<>>, next |-> 1, seenTexts |-> {},
     clauses |-> <<>>]

\* Every frame's seenTexts taken together: the set consulted were it
\* allocated once for the module and not once per call.
seenByAny(fs, k) == UNION {fs[j].seenTexts : j \in 1..Len(fs)}

\* Line 656: seenTexts is allocated by the invocation that consults it.
seenBy(fs, k) == fs[k].seenTexts

\* The caller makes the repository list and the schema record.
Provide(schema, repo) ==
    /\ pc = "input"
    /\ frames = <<>>
    /\ userSchema' = schema
    /\ repositoryClauses' = repo
    /\ pc' = "calling"
    /\ UNCHANGED <<documentText, nsegs, trace, blocks, log, clauses, normalizing, matching, frames, elsewhere>>

\* extractClausesRuleBased(doc, repositoryClauses, userSchema) is entered.
Invoke(doc) ==
    /\ pc = "calling"
    /\ Len(frames) < MaxInvocations
    /\ frames' = Append(frames, NewFrame(doc))
    /\ UNCHANGED <<pc, repositoryClauses, extraction, normalizing, matching, elsewhere>>

\* Lines 553-654 of invocation k: the blocks, or the TypeError of line 642.
SegmentStep(k) ==
    /\ frames[k].at = "called"
    /\ \E seg \in {segment(frames[k].documentText, userSchema)} :
          frames' = [frames EXCEPT ![k] =
                        IF seg.threw THEN [@ EXCEPT !.at = "thrown"]
                        ELSE [@ EXCEPT !.at = "loop", !.blocks = seg.blocks]]
    /\ UNCHANGED <<pc, repositoryClauses, extraction, normalizing, matching, elsewhere>>

\* Lines 658-749 of invocation k: one iteration of the loop.
BlockStep(k) ==
    /\ frames[k].at = "loop"
    /\ frames[k].next <= Len(frames[k].blocks)
    /\ \E entry \in {processBlock(frames[k].blocks[frames[k].next], repositoryClauses,
                                  seenBy(frames, k))} :
          frames' = [frames EXCEPT ![k] =
                        [@ EXCEPT !.next = @ + 1,
                                  !.clauses = @ \o entry.emitted,
                                  !.seenTexts = IF entry.outcome \in Emitting
                                                THEN @ \cup {trim(entry.block)} ELSE @]]
    /\ UNCHANGED <<pc, repositoryClauses, extraction, normalizing, matching, elsewhere>>

\* Line 752 of invocation k.
Return(k) ==
    /\ frames[k].at = "loop"
    /\ frames[k].next > Len(frames[k].blocks)
    /\ frames' = [frames EXCEPT ![k] = [@ EXCEPT !.at = "returned"]]
    /\ UNCHANGED <<pc, repositoryClauses, extraction, normalizing, matching, elsewhere>>

ConcurrentNext ==
    \/ \E a \in Arguments : Provide(a[1], a[2])
    \/ \E doc \in Documents : Invoke(doc)
    \/ \E k \in 1..Len(frames) : SegmentStep(k)
    \/ \E k \in 1..Len(frames) : BlockStep(k)
    \/ \E k \in 1..Len(frames) : Return(k)

ConcurrentSpec == Init /\ [][ConcurrentNext]_vars

(***************************************************************************)
(* Direct calls of detectNumberingSchema, and calls of the extractor       *)
(* without a schema and with a schema whose numbering no line has, on a    *)
(* title line followed by up to MaxLines header lines of the five kinds    *)
(* the detector counts.                                                    *)
(***************************************************************************)
MaxLines == 4

HeaderLines ==
    {<<"I", DOT, SP, "TERM", DOT>>,
     <<"Section", SP, "1", DOT>>,
     <<"ARTICLE", SP, "1", DOT>>,
     <<"ARTICLE", SP, "I", DOT>>,
     <<"1", DOT, SP, "TERM", DOT>>}

\* The text starts with a title (the counting expressions begin with \n).
AddLine(h) ==
    /\ pc = "input"
    /\ nsegs < MaxLines
    /\ documentText' = (IF nsegs = 0 THEN bFine ELSE documentText) \o <<NL>> \o h
    /\ nsegs' = nsegs + 1
    /\ UNCHANGED <<pc, userSchema, repositoryClauses, trace, blocks, log, clauses>>
    /\ UNCHANGED <<normalizing, matching, frames, elsewhere>>

\* detectNumberingSchema(documentText)
Detect ==
    /\ pc = "input"
    /\ detected' = detectNumberingSchema(documentText)
    /\ pc' = "detected"
    /\ UNCHANGED <<repositoryClauses, extraction, normalizing, matching, frames, detectedType, parsed, services>>

DetectNext ==
    \/ \E h \in HeaderLines : AddLine(h)
    \/ Detect
    \/ \E schema \in {Absent, "decimal"} : Extract(schema, <<>>)

DetectSpec == Init /\ [][DetectNext]_vars

(***************************************************************************)
(* Direct calls of detectClauseType on texts of up to MaxPhrases           *)
(* sentences: two with the markers of the first 50 characters, three with  *)
(* terms of the keyword rules, and two without any, one of them long       *)
(* enough to move what follows it past the first 200 characters.           *)
(***************************************************************************)
MaxPhrases == 3

bBetween == <<"Between each party", DOT>>
bDated == <<"This agreement is dated today", DOT>>
bConfidential == <<"The parties keep this confidential", DOT>>
bLiability == <<"Liability is capped", DOT>>
bNoticeOfTermination == <<"Notice of termination", DOT>>
bLong ==
    <<"Nothing in this part binds anyone to do anything more than what has been said before and nothing in it binds anyone to do anything less than what has been said before", DOT>>

Phrases == {bBetween, bDated, bConfidential, bLiability, bNoticeOfTermination, bNotices, bPlain, bLong}

AddPhrase(s) ==
    /\ pc = "input"
    /\ nsegs < MaxPhrases
    /\ documentText' = IF nsegs = 0 THEN s ELSE documentText \o <<SP>> \o s
    /\ nsegs' = nsegs + 1
    /\ UNCHANGED <<pc, userSchema, repositoryClauses, trace, blocks, log, clauses>>
    /\ UNCHANGED <<normalizing, matching, frames, elsewhere>>

\* detectClauseType(documentText)
DetectType ==
    /\ pc = "input"
    /\ detectedType' = detectClauseType(documentText)
    /\ pc' = "typed"
    /\ UNCHANGED <<repositoryClauses, extraction, normalizing, matching, frames, detected, parsed, services>>

KeywordNext ==
    \/ \E s \in Phrases : AddPhrase(s)
    \/ DetectType

KeywordSpec == Init /\ [][KeywordNext]_vars

(***************************************************************************)
(* Direct calls of parseClauseNumber on blocks of up to MaxPieces pieces,  *)
(* each joined to the one before by a blank or a newline: numbers,         *)
(* Section headers, titles in capitals, and sentences.                     *)
(***************************************************************************)
MaxPieces == 3

Sentences == {bShall, bPlain}

BlockPieces ==
    Sentences \cup
    {<<"1", DOT>>, <<"Section", SP, "1", DOT>>, <<"Section", SP, "1">>, <<"TERM", DOT>>,
     <<"TERM">>, <<"a", DOT>>, <<"1", DOT, DOT, "TERM">>}

AddPiece(sep, s) ==
    /\ pc = "input"
    /\ nsegs < MaxPieces
    /\ documentText' = IF nsegs = 0 THEN s ELSE documentText \o <<sep>> \o s
    /\ nsegs' = nsegs + 1
    /\ UNCHANGED <<pc, userSchema, repositoryClauses, trace, blocks, log, clauses>>
    /\ UNCHANGED <<normalizing, matching, frames, elsewhere>>

\* parseClauseNumber(documentText)
Parse ==
    /\ pc = "input"
    /\ parsed' = parseClauseNumber(documentText)
    /\ pc' = "parsed"
    /\ UNCHANGED <<repositoryClauses, extraction, normalizing, matching, frames, detected, detectedType, services>>

ParseNext ==
    \/ \E sep \in {SP, NL}, s \in BlockPieces : AddPiece(sep, s)
    \/ Parse

ParseSpec == Init /\ [][ParseNext]_vars

(***************************************************************************)
(* The store of src/src/services/database.ts and its synchronisation by    *)
(* src/src/services/googleSync.ts.  A clause is the record of its id, its  *)
(* text and its subtags field, a contract that of its id and its creation  *)
(* time; localStorage holds a list of each.  Time is counted in            *)
(* milliseconds and advances by TickMs.                                    *)
(***************************************************************************)
MaxStoreCalls == 3
MaxMutations == 2
MaxTime == 4000
MaxInflight == 2
TickMs == 1000

\* setTimeout(..., 2000)
Debounce == 2000

\* crypto.randomUUID(): an identifier never issued before.
Uuids == <<"u1", "u2", "u3">>
randomUUID(issued) == Uuids[issued + 1]

\* Lines 36-41 of database.ts: subtags: c.subtags || (c.subtag ? [c.subtag] : [])
migrated(c) == [c EXCEPT !.subtags = IF c.subtags = Absent THEN "[]" ELSE c.subtags]

getClauses(stored) == [k \in 1..Len(stored) |-> migrated(stored[k])]

\* Lines 107-123: contract_no is the rank by created_at, the sort being
\* stable.
contractNo(stored, k) ==
    1 + Cardinality({j \in 1..Len(stored) :
                        \/ stored[j].created_at < stored[k].created_at
                        \/ stored[j].created_at = stored[k].created_at /\ j < k})

getContracts(stored) ==
    [k \in 1..Len(stored) |->
        [id |-> stored[k].id, created_at |-> stored[k].created_at,
         contract_no |-> contractNo(stored, k)]]

\* The identifiers of a list of records.
idsOf(list) == {list[k].id : k \in 1..Len(list)}

\* clauses.findIndex(c => c.id === id), from 1 (0: not found).
findIndex(list, id) ==
    IF id \in idsOf(list) THEN Min({k \in 1..Len(list) : list[k].id = id}) ELSE 0

\* list.filter(c => c.id !== id)
RECURSIVE without(_, _)
without(list, id) ==
    IF list = <<>> THEN <<>>
    ELSE IF Head(list).id = id THEN without(Tail(list), id)
         ELSE <<Head(list)>> \o without(Tail(list), id)

\* data.clauses.filter(c => !existingIds.has(c.id))
RECURSIVE notExisting(_, _)
notExisting(list, existingIds) ==
    IF list = <<>> THEN <<>>
    ELSE IF Head(list).id \in existingIds THEN notExisting(Tail(list), existingIds)
         ELSE <<Head(list)>> \o notExisting(Tail(list), existingIds)

\* Lines 236-240 and 247-251: [...existing, ...new]
merged(existing, data) == existing \o notExisting(data, idsOf(existing))

\* A field of the imported data: an array of records, or no array.
Array(items) == [isArray |-> TRUE, items |-> items]
NoArray == [isArray |-> FALSE, items |-> <<>>]

\* The lists an import leaves in localStorage; a field that is not an array
\* leaves its list alone.
importedClauses(stored, field, replacing) ==
    IF ~field.isArray THEN stored
    ELSE merged(IF replacing THEN <<>> ELSE getClauses(stored), field.items)

importedContracts(stored, field, replacing) ==
    IF ~field.isArray THEN stored
    ELSE merged(IF replacing THEN <<>> ELSE getContracts(stored), field.items)

\* clausesImported and contractsImported
importedCount(stored, field, replacing) ==
    IF ~field.isArray THEN 0
    ELSE Len(notExisting(field.items, IF replacing THEN {} ELSE idsOf(stored)))

(***************************************************************************)
(* googleSync.ts                                                           *)
(***************************************************************************)
\* clearTimeout(handle)
clearTimeout(armed, handle) == {t \in armed : t.handle # handle}

\* Lines 219-230: scheduleSync clears the timer of syncTimeout and sets a
\* new one.
scheduleSync ==
    /\ timers' = clearTimeout(timers, syncTimeout) \cup {[handle |-> handles + 1, due |-> now + Debounce]}
    /\ syncTimeout' = handles + 1
    /\ handles' = handles + 1
    /\ UNCHANGED <<now, awaiting, inflight, isSyncing, delivered, sent>>

\* A call that changes the store, and the handle of the timer it has set
\* (NoTimeout: none).
Mutation(handle) == [at |-> now, handle |-> handle]

\* A mutation followed by scheduleAutoSync().
mutatedAndScheduled ==
    /\ mutations' = Append(mutations, Mutation(handles + 1))
    /\ scheduleSync

\* What a call leaves of the state of googleSync.ts when it returns before
\* scheduleAutoSync().
notScheduled == UNCHANGED <<now, syncTimeout, handles, timers, awaiting, inflight, isSyncing, delivered, sent>>

rest == <<pc, repositoryClauses, extraction, normalizing, matching, frames, detecting>>

(***************************************************************************)
(* database.ts                                                             *)
(***************************************************************************)
\* Lines 53-66
createClause(formData) ==
    /\ storedClauses' =
          <<[id |-> randomUUID(uuids), clause_text |-> formData.clause_text, subtags |-> "[]"]>>
             \o getClauses(storedClauses)
    /\ uuids' = uuids + 1
    /\ mutatedAndScheduled
    /\ UNCHANGED <<storedContracts, rest>>

\* Lines 68-83
updateClause(id, updates) ==
    /\ IF findIndex(storedClauses, id) = 0
       THEN UNCHANGED <<storedClauses, mutations>> /\ notScheduled
       ELSE /\ storedClauses' =
                  [getClauses(storedClauses) EXCEPT
                      ![findIndex(storedClauses, id)].clause_text = updates.clause_text]
            /\ mutatedAndScheduled
    /\ UNCHANGED <<storedContracts, uuids, rest>>

\* Lines 85-93
deleteClause(id) ==
    /\ IF id \notin idsOf(storedClauses)
       THEN UNCHANGED <<storedClauses, mutations>> /\ notScheduled
       ELSE /\ storedClauses' = without(getClauses(storedClauses), id)
            /\ mutatedAndScheduled
    /\ UNCHANGED <<storedContracts, uuids, rest>>

\* Lines 144-159
createContract ==
    /\ storedContracts' =
          <<[id |-> randomUUID(uuids), created_at |-> now,
             contract_no |-> Len(storedContracts) + 1]>> \o getContracts(storedContracts)
    /\ uuids' = uuids + 1
    /\ mutatedAndScheduled
    /\ UNCHANGED <<storedClauses, rest>>

\* Lines 178-186
deleteContract(id) ==
    /\ IF id \notin idsOf(storedContracts)
       THEN UNCHANGED <<storedContracts, mutations>> /\ notScheduled
       ELSE /\ storedContracts' = without(getContracts(storedContracts), id)
            /\ mutatedAndScheduled
    /\ UNCHANGED <<storedClauses, uuids, rest>>

\* Lines 230-260: importData(JSON.stringify(data), {replace: replacing});
\* the sync is scheduled when a clause or a contract has been imported.
importData(data, replacing) ==
    /\ storedClauses' = importedClauses(storedClauses, data.clauses, replacing)
    /\ storedContracts' = importedContracts(storedContracts, data.contracts, replacing)
    /\ IF \/ importedCount(storedClauses, data.clauses, replacing) > 0
          \/ importedCount(storedContracts, data.contracts, replacing) > 0
       THEN mutatedAndScheduled
       ELSE /\ mutations' =
                  IF storedClauses' # storedClauses \/ storedContracts' # storedContracts
                  THEN Append(mutations, Mutation(NoTimeout)) ELSE mutations
            /\ notScheduled
    /\ UNCHANGED <<uuids, rest>>

\* The clauses and the contracts of the files imported: clauses exported
\* earlier, hence under identifiers issued, and those of another store.
ForeignClause == [id |-> "x1", clause_text |-> "t0", subtags |-> Absent]
ExportedClause == [id |-> "u1", clause_text |-> "t0", subtags |-> "[]"]
ForeignContract == [id |-> "y1", created_at |-> 0, contract_no |-> 1]

FileClauses(issued) == IF issued > 0 THEN {ForeignClause, ExportedClause} ELSE {ForeignClause}

ClauseArrays(issued) ==
    {<<>>} \cup {<<c>> : c \in FileClauses(issued)}
           \cup {<<c, d>> : c \in FileClauses(issued), d \in FileClauses(issued)}

Files(issued) ==
    [clauses : {NoArray} \cup {Array(a) : a \in ClauseArrays(issued)},
     contracts : {NoArray, Array(<<>>), Array(<<ForeignContract>>)}]

\* Calls of the store alone: no time passes between them.
StoreNext ==
    /\ Len(mutations) < MaxStoreCalls
    /\ \/ \E t \in {"t1"} : createClause([clause_text |-> t])
       \/ \E id \in idsOf(storedClauses) \cup {"x2"} : updateClause(id, [clause_text |-> "t2"])
       \/ \E id \in idsOf(storedClauses) \cup {"x2"} : deleteClause(id)
       \/ createContract
       \/ \E id \in idsOf(storedContracts) \cup {"y2"} : deleteContract(id)
       \/ \E data \in Files(uuids), replacing \in BOOLEAN : importData(data, replacing)

StoreSpec == Init /\ [][StoreNext]_vars

(***************************************************************************)
(* The timer, the requests and their responses.                            *)
(***************************************************************************)
Tick ==
    /\ now < MaxTime
    /\ now' = now + TickMs
    /\ UNCHANGED <<syncTimeout, handles, timers, awaiting, inflight, isSyncing, delivered, mutations, sent>>
    /\ UNCHANGED <<storing, rest>>

\* Line 224: the timer is due, its callback starts and requests the auth
\* status.
TimeoutFires(t) ==
    /\ t \in timers
    /\ now >= t.due
    /\ timers' = timers \ {t}
    /\ awaiting' = awaiting \cup {t.handle}
    /\ UNCHANGED <<now, syncTimeout, handles, inflight, isSyncing, delivered, mutations, sent>>
    /\ UNCHANGED <<storing, rest>>

\* Lines 72-73: isSyncing = true; notifyListeners('syncing'), and the
\* request to the endpoint is under way.
started(endpoint) ==
    /\ isSyncing' = TRUE
    /\ delivered' = "syncing"
    /\ inflight' = Append(inflight, endpoint)

\* The body of a request of syncAll.
Body == [clauses |-> getClauses(storedClauses), contracts |-> getContracts(storedContracts), deals |-> <<>>]

\* Lines 225-228: the status arrives ({authenticated: false} when the
\* request has failed), and syncAll is called when it is authenticated.
AuthStatusArrives(handle, authenticated) ==
    /\ handle \in awaiting
    /\ awaiting' = awaiting \ {handle}
    /\ IF authenticated
       THEN /\ Len(inflight) < MaxInflight
            /\ started("all")
            /\ sent' = Append(sent, [handle |-> handle, at |-> now, authenticated |-> authenticated, body |-> Body])
       ELSE UNCHANGED <<inflight, isSyncing, delivered, sent>>
    /\ UNCHANGED <<now, syncTimeout, handles, timers, mutations>>
    /\ UNCHANGED <<storing, rest>>

\* handleSyncNow of the status widget (syncAll), or a call of syncClauses,
\* syncContracts or syncDeals.
Endpoints == {"all", "clauses", "contracts", "deals"}

SyncNow(endpoint) ==
    /\ Len(inflight) < MaxInflight
    /\ started(endpoint)
    /\ UNCHANGED <<now, syncTimeout, handles, timers, awaiting, mutations, sent>>
    /\ UNCHANGED <<storing, rest>>

\* Lines 83-95: the status notified for a response, or 'offline' when the
\* request has failed.
statusOf(outcome) ==
    CASE outcome = "success" -> "synced"
      [] outcome = "failure" -> "error"
      [] outcome = "failed to connect" -> "offline"

Outcomes == {"success", "failure", "failed to connect"}

\* The list without its element k.
removeAt(list, k) == SubSeq(list, 1, k - 1) \o SubSeq(list, k + 1, Len(list))

ResponseArrives(k, outcome) ==
    /\ k \in 1..Len(inflight)
    /\ inflight' = removeAt(inflight, k)
    /\ delivered' = statusOf(outcome)
    /\ isSyncing' = FALSE
    /\ UNCHANGED <<now, syncTimeout, handles, timers, awaiting, mutations, sent>>
    /\ UNCHANGED <<storing, rest>>

\* The files imported while the synchronisation runs: no clause, or one.
SyncFiles == {[clauses |-> Array(a), contracts |-> NoArray] : a \in {<<>>, <<ForeignClause>>}}

SyncNext ==
    \/ /\ Len(mutations) < MaxMutations
       /\ \/ createClause([clause_text |-> "t1"])
          \/ \E id \in idsOf(storedClauses) : updateClause(id, [clause_text |-> "t2"])
          \/ \E id \in idsOf(storedClauses) : deleteClause(id)
          \/ createContract
          \/ \E id \in idsOf(storedContracts) : deleteContract(id)
          \/ \E data \in SyncFiles, replacing \in BOOLEAN : importData(data, replacing)
    \/ Tick
    \/ \E t \in timers : TimeoutFires(t)
    \/ \E handle \in awaiting, authenticated \in BOOLEAN : AuthStatusArrives(handle, authenticated)
    \/ \E endpoint \in Endpoints : SyncNow(endpoint)
    \/ \E k \in 1..Len(inflight), outcome \in Outcomes : ResponseArrives(k, outcome)

SyncSpec == Init /\ [][SyncNext]_vars

(***************************************************************************)
(* Properties of a finished call.                                          *)
(***************************************************************************)
\* The text of a block as the classifier sees it (lines 659 and 664).
cleanedOf(block) == trim(replacePageNoise(trim(block), 1))

\* The pieces the merge loop walks, by index, and those it keeps (line 639).
Pieces == trace.initialBlocks
KeptPieces == {k \in 1..Len(Pieces) : length(trim(Pieces[k])) >= MinBlockLength}
\* The first line of a text matches the header expression in force.
IsHeaderLine(piece) ==
    trace.mainHeaderRegex.type = "RegExp" /\ test(trace.mainHeaderRegex, firstLine(piece))
IsHeaderPiece(k) == IsHeaderLine(trim(Pieces[k]))

\* C1: no two clauses of the returned list have the same clause_text after
\* trimming.
C1_NoDuplicateText ==
    pc = "returned" =>
        \A i, j \in 1..Len(clauses) :
            i # j => trim(clauses[i].clause_text) # trim(clauses[j].clause_text)

\* C2: every clause of the returned list has a non-empty clause_type and a
\* non-empty clause_text, whichever path pushed it.
C2_NonEmptyFields ==
    pc = "returned" =>
        \A i \in 1..Len(clauses) :
            /\ length(clauses[i].clause_type) > 0
            /\ length(clauses[i].clause_text) > 0

\* A call that pushed clauses on all three paths.
C2_AllPathsTaken ==
    /\ pc = "returned"
    /\ {"regular", "unexpanded", "expanded"} \subseteq {log[k].outcome : k \in 1..Len(log)}

\* C3: the call never throws, whatever the text, the repository and the
\* schema argument.
C3_NeverThrows == pc # "thrown"

\* C4 as stated: a block whose parsed clause_no contains "miscellaneous" or
\* "general" always leaves a clause in the output.
C4_MiscNeverLost ==
    pc = "returned" =>
        \A k \in 1..Len(log) :
            isMiscellaneousOrGeneralSection(log[k].clause_no) =>
                \E i \in 1..Len(clauses) : clauses[i].clause_no = log[k].clause_no

\* What the output holds of a miscellaneous block e whose expansion gives subs.
MiscKept(e, subs) ==
    IF subs # <<>>
    THEN \A s \in 1..Len(subs) : \E i \in 1..Len(clauses) : clauses[i] = subs[s]
    ELSE \E i \in 1..Len(clauses) :
            /\ clauses[i].clause_no = e.clause_no
            /\ clauses[i].clause_type = e.detectedType
            /\ clauses[i].clause_text = normalizeText(e.body_text)

\* C4, amended: a block whose parsed clause_no contains "miscellaneous" or
\* "general" and for which some stage resolved a type leaves in the output
\* its sub-clauses or, when there are none, one clause with its whole body.
C4_TypedMiscNeverLost ==
    pc = "returned" =>
        \A k \in 1..Len(log) :
            /\ isMiscellaneousOrGeneralSection(log[k].clause_no)
            /\ log[k].detectedType # NoType
            => MiscKept(log[k],
                        extractSubclausesFromMiscellaneous(log[k].clause_no,
                                                           cleanedOf(log[k].block),
                                                           repositoryClauses))

\* A general block that has a type and no qualifying sub-clause.
C4_UndividedBlockEmitted ==
    /\ pc = "returned"
    /\ \E k \in 1..Len(log) :
          /\ log[k].outcome = "unexpanded"
          /\ isMiscellaneousOrGeneralSection(log[k].clause_no)
          /\ Len(log[k].emitted) = 1

\* C5: every sub-clause of an expanded block has the clause_no parsed for
\* the block, whatever local reference its own text begins with.
C5_SubclauseInheritsClauseNo ==
    pc = "returned" =>
        \A k \in 1..Len(log) :
            log[k].outcome = "expanded" =>
                \A s \in 1..Len(log[k].emitted) :
                    /\ log[k].emitted[s].clause_no
                         = parseClauseNumber(cleanedOf(log[k].block)).clause_no
                    /\ \E i \in 1..Len(clauses) : clauses[i] = log[k].emitted[s]

\* A sub-clause whose text begins with the local reference "(b)".
C5_LocalReferenceIgnored ==
    /\ pc = "returned"
    /\ \E i \in 1..Len(clauses) :
          /\ Head(clauses[i].clause_text) = "(b)"
          /\ clauses[i].clause_no = <<"1", DOT, SP, "GENERAL">>

\* No position of the text matches the split pattern in use or any of the
\* three alternative patterns.
NoHeaders ==
    /\ Len(trace.primary) <= 1
    /\ \A k \in 1..Len(Fallbacks) : Len(split(trace.cleanedText, Fallbacks[k].regex)) = 1

\* C6: a text without headers gives one block, the whole text, and at most
\* one clause, under every schema argument.  Stated for the texts long
\* enough to pass every length test of the loops (30 characters or more).
C6_WholeTextBlock ==
    /\ pc = "returned"
    /\ NoHeaders
    /\ length(trim(trace.cleanedText)) >= MinTrimmedBlock
    => /\ blocks = <<trim(trace.cleanedText)>>
       /\ Len(clauses) <= 1

SuppliedPieces == IF trace.fallback # 0 THEN trace.initialBlocks ELSE trace.primary

StartsWith(S, p) == Len(S) >= Len(p) /\ SubSeq(S, 1, Len(p)) = p

\* C8: when the first of several pieces does not begin with a header line,
\* its text begins no block and no clause text, in every mode.
C8_PreambleDiscarded ==
    pc = "returned" /\ Len(SuppliedPieces) > 1 =>
        \/ length(trim(SuppliedPieces[1])) = 0
        \/ IsHeaderLine(trim(SuppliedPieces[1]))
        \/ /\ \A k \in 1..Len(blocks) : ~StartsWith(blocks[k], trim(SuppliedPieces[1]))
           /\ \A i \in 1..Len(clauses) :
                 ~StartsWith(clauses[i].clause_text, normalizeText(SuppliedPieces[1]))

\* p stands in block b after a blank-line separator, as a whole piece.
AppendedIn(b, p) ==
    \E i \in 1..(Len(b) - Len(p) - 1) :
        /\ SubSeq(b, i, i + Len(p) + 1) = <<NL, NL>> \o p
        /\ \/ i + Len(p) + 1 = Len(b)
           \/ /\ i + Len(p) + 3 <= Len(b)
              /\ SubSeq(b, i + Len(p) + 2, i + Len(p) + 3) = <<NL, NL>>

\* Piece k is the text of a capture group that split puts between two
\* pieces: the piece after it begins with the same text.
IsCapture(k) == k < Len(Pieces) /\ Len(Pieces[k]) = 1 /\ StartsWith(Pieces[k + 1], Pieces[k])

\* Piece k continues a block: it has text, its first line is no header, and
\* a kept piece comes before it.
IsContinuation(k) ==
    /\ length(trim(Pieces[k])) > 0
    /\ ~IsCapture(k)
    /\ ~IsHeaderPiece(k)
    /\ \E j \in KeptPieces : j < k

RECURSIVE Joined(_)
Joined(texts) ==
    IF texts = <<>> THEN <<>>
    ELSE IF Len(texts) = 1 THEN texts[1]
    ELSE texts[1] \o <<NL, NL>> \o Joined(Tail(texts))

IsKept(piece) == length(trim(piece)) >= MinBlockLength

Trimmed(pieces) == [k \in 1..Len(pieces) |-> trim(pieces[k])]

Unresolved(cleanedBlock) ==
    /\ repositoryStage(ruleBasedType(cleanedBlock), cleanedBlock,
                       repositoryClauses).detectedType = NoType
    /\ length(cleanedBlock) <= GenericLength
    /\ ~looksLegal(cleanedBlock)

PassedOver(k) ==
    \/ length(trim(blocks[k])) < MinTrimmedBlock
    \/ \E j \in 1..(k - 1) : trim(blocks[j]) = trim(blocks[k]) /\ log[j].emitted # <<>>
    \/ length(cleanedOf(blocks[k])) < MinCleanedBlock

C13_Idempotent == pc = "returned" => normalized.twice = normalized.once

\* A text with a tab, a carriage return and a newline that the function
\* changed, and whose result is not empty.
C13_MixedWhitespaceNormalized ==
    /\ pc = "returned"
    /\ {TAB, CR, NL} \subseteq {text[i] : i \in 1..Len(text)}
    /\ normalized.once # text
    /\ normalized.once # <<>>

(***************************************************************************)
(* Properties of the two matchers called directly (MatchSpec).             *)
(***************************************************************************)
One == Ratio(1, 1)
Same(x, y) == x.num * y.den = y.num * x.den
AtMost(x, y) == ~Less(y, x)

\* a * x + b * y for two fractions x and y and a + b = 1 given in fifths or
\* twentieths: (a * x.num * y.den + b * y.num * x.den) / ((a + b) * x.den * y.den)
Mix(a, x, b, y) == Ratio(a * x.num * y.den + b * y.num * x.den, (a + b) * x.den * y.den)

\* Repository clause i may be matched by matchClauseFromRepository, and
\* its score there: 0.4 * word Jaccard + 0.6 * trigram Jaccard.
EligibleByClause(i) ==
    /\ length(repositoryClauses[i].clause_text) >= 50
    /\ repositoryClauses[i].clause_type \notin {<<"General Clause">>, <<"Other">>}
ScoreByClause(i) ==
    Mix(2, calculateTextSimilarity(clauseText, repositoryClauses[i].clause_text),
        3, calculateNGramSimilarity(clauseText, repositoryClauses[i].clause_text, 3))

\* Repository clause i counts for its group in findBestClauseTypeMatch, and
\* its score there: 0.35 * word Jaccard + 0.65 * bigram Jaccard.
EligibleByType(i) ==
    /\ length(repositoryClauses[i].clause_text) >= 30
    /\ repositoryClauses[i].clause_type \notin {<<"General Clause">>, <<"Other">>}
ScoreByType(i) ==
    Mix(7, calculateTextSimilarity(clauseText, repositoryClauses[i].clause_text),
        13, calculateNGramSimilarity(clauseText, repositoryClauses[i].clause_text, 2))

Entries == 1..Len(repositoryClauses)
ReachingByClause == {i \in Entries : EligibleByClause(i) /\ AtMost(threshold, ScoreByClause(i))}
ReachingByType == {i \in Entries : EligibleByType(i) /\ AtMost(threshold, ScoreByType(i))}

\* C14: a match returned by either matcher has a score between 0 and 1 that
\* is at least the threshold, and either matcher returns null when no
\* eligible repository clause reaches the threshold.
C14_ScoreBoundsAndNull ==
    pc = "matched" =>
        /\ \A m \in {bestMatch.byClause, bestMatch.byType} :
              m.found => AtMost(Zero, m.score) /\ AtMost(m.score, One) /\ AtMost(threshold, m.score)
        /\ ReachingByClause = {} => ~bestMatch.byClause.found
        /\ ReachingByType = {} => ~bestMatch.byType.found

\* C15: matchClauseFromRepository returns null when no eligible clause
\* reaches the threshold, and otherwise the type, score and id of the
\* eligible clause with the highest score, the first of them in repository
\* order when several have that score.
C15_FirstHighestEligible ==
    pc = "matched" =>
        IF ReachingByClause = {} THEN ~bestMatch.byClause.found
        ELSE /\ bestMatch.byClause.found
             /\ \E i \in ReachingByClause :
                   /\ \A j \in ReachingByClause : AtMost(ScoreByClause(j), ScoreByClause(i))
                   /\ \A j \in ReachingByClause : j < i => Less(ScoreByClause(j), ScoreByClause(i))
                   /\ bestMatch.byClause.clauseType = repositoryClauses[i].clause_type
                   /\ bestMatch.byClause.matchedClauseId = repositoryClauses[i].id
                   /\ Same(bestMatch.byClause.score, ScoreByClause(i))

\* Two eligible clauses of different types have the highest score, and the
\* match is the earlier one.
C15_TieFirstWins ==
    /\ pc = "matched"
    /\ bestMatch.byClause.found
    /\ \E i, j \in ReachingByClause :
          /\ i < j
          /\ Same(ScoreByClause(i), ScoreByClause(j))
          /\ Same(ScoreByClause(i), bestMatch.byClause.score)
          /\ repositoryClauses[i].clause_type # repositoryClauses[j].clause_type
          /\ bestMatch.byClause.matchedClauseId = repositoryClauses[i].id

\* C16: a match returned by findBestClauseTypeMatch names a type that is
\* not generic and whose group has the highest score among the eligible
\* clauses, and its matchedClauseId is the id of an eligible clause of that
\* type with that score, whatever the threshold.
C16_BestGroupAndClause ==
    pc = "matched" /\ bestMatch.byType.found =>
        /\ bestMatch.byType.clauseType \notin {<<"General Clause">>, <<"Other">>}
        /\ \A j \in Entries : EligibleByType(j) => AtMost(ScoreByType(j), bestMatch.byType.score)
        /\ \E i \in Entries :
              /\ EligibleByType(i)
              /\ repositoryClauses[i].clause_type = bestMatch.byType.clauseType
              /\ repositoryClauses[i].id = bestMatch.byType.matchedClauseId
              /\ Same(ScoreByType(i), bestMatch.byType.score)

(***************************************************************************)
(* Properties of the classifier and of the expander (ClassifySpec).        *)
(***************************************************************************)
\* What lines 672-680 compute for the block of log entry e: the title of
\* the header stage, the type of the rule-based stages, the repository match.
TitleOf(e) == parseHeader(cleanedOf(e.block))
RuleTypeOf(e) == ruleBasedType(cleanedOf(e.block))
RepoMatchOf(e) ==
    IF Len(repositoryClauses) > 0
    THEN findBestClauseTypeMatch(cleanedOf(e.block), repositoryClauses, Ratio(12, 100))
    ELSE NoMatch

\* The block of e is emitted as one clause.
Unexpanded(e) == e.outcome \in {"regular", "unexpanded"}

\* There is a repository match, and the rule-based stages gave no type or
\* "General Clause", or the match scores above 0.2.
RepoPreferred(e) ==
    /\ RepoMatchOf(e).found
    /\ \/ RuleTypeOf(e) = NoType
       \/ RuleTypeOf(e) = <<"General Clause">>
       \/ Less(Ratio(2, 10), RepoMatchOf(e).score)

\* C11: a block emitted as one clause has the type of the repository match
\* when there is a match and the rule-based stages gave no type, gave
\* "General Clause", or the match scores above 0.2; otherwise it has the
\* rule-based type (the generic fallback's when the stages gave none).
C11_RepositoryOverridesWeakOnly ==
    pc = "returned" =>
        \A k \in 1..Len(log) :
            Unexpanded(log[k]) =>
                log[k].emitted[1].clause_type =
                    IF RepoPreferred(log[k]) THEN RepoMatchOf(log[k]).clauseType
                    ELSE IF RuleTypeOf(log[k]) # NoType THEN RuleTypeOf(log[k])
                    ELSE <<"General Clause">>

\* A block with a header title and a repository match of another type that
\* scores at most 0.2: the clause has the title's type.
C11_WeakMatchKeepsTitle ==
    /\ pc = "returned"
    /\ \E k \in 1..Len(log) :
          /\ Unexpanded(log[k])
          /\ TitleOf(log[k]) # NoType
          /\ RepoMatchOf(log[k]).found
          /\ AtMost(RepoMatchOf(log[k]).score, Ratio(2, 10))
          /\ RepoMatchOf(log[k]).clauseType # TitleOf(log[k])
          /\ log[k].emitted[1].clause_type = TitleOf(log[k])

\* C12: for a block without header title and without keyword hit in its
\* first 200 characters that is emitted as one clause, a repository match
\* that clears the threshold decides the type, whether or not a canonical
\* type name occurs in the block.
C12_RepositoryBeforeCanonical ==
    pc = "returned" =>
        \A k \in 1..Len(log) :
            /\ Unexpanded(log[k])
            /\ TitleOf(log[k]) = NoType
            /\ keywordStage(cleanedOf(log[k].block)) = NoType
            /\ RepoMatchOf(log[k]).found
            => log[k].emitted[1].clause_type = RepoMatchOf(log[k]).clauseType

\* A block "8. MISCELLANEOUS. <p1> <p2>" of two parenthetical pieces, the
\* type the expander gives a piece, and the sub-clause it makes of it.
MiscellaneousBlock(p1, p2) == hMiscellaneous \o <<SP>> \o p1 \o <<SP>> \o p2
PieceTypeOf(p) == subclauseTypeOf(p, repositoryClauses)
ParentNo == <<"8", DOT, SP, "MISCELLANEOUS">>
HasSubclause(c, p, type) ==
    /\ c.clause_no = ParentNo
    /\ c.clause_text = p
    /\ c.clause_type = type

TypedSubclauses(emitted, p1, p2) ==
    IF PieceTypeOf(p1) # NoType /\ PieceTypeOf(p2) # NoType
    THEN /\ Len(emitted) = 2
         /\ HasSubclause(emitted[1], p1, PieceTypeOf(p1))
         /\ HasSubclause(emitted[2], p2, PieceTypeOf(p2))
    ELSE IF PieceTypeOf(p1) # NoType
    THEN Len(emitted) = 1 /\ HasSubclause(emitted[1], p1, PieceTypeOf(p1))
    ELSE IF PieceTypeOf(p2) # NoType
    THEN Len(emitted) = 1 /\ HasSubclause(emitted[1], p2, PieceTypeOf(p2))
    ELSE /\ Len(emitted) = 1
         /\ emitted[1].clause_no = ParentNo
         /\ emitted[1].clause_text = p1 \o <<SP>> \o p2

C19_ScenarioTwoClauses ==
    pc = "returned" /\ documentText = ScenarioA /\ userSchema = "numeric" /\ repositoryClauses = <<>>
    => /\ Len(clauses) = 2
       /\ clauses[1].clause_no = <<"1", DOT, SP, "INDEMNITY">>
       /\ clauses[1].clause_type = <<"Indemnification">>
       /\ clauses[1].clause_text = bIndemnify
       /\ clauses[2].clause_no = <<"2", DOT, SP, "TERM">>
       /\ clauses[2].clause_type # NoType
       /\ clauses[2].clause_type = parseHeader(blocks[2])
       /\ clauses[2].clause_text = bYear

\* The scenario's text has been split into its two blocks and returned.
C19_ScenarioReturned ==
    /\ pc = "returned" /\ documentText = ScenarioA /\ userSchema = "numeric"
    /\ repositoryClauses = <<>>
    /\ Len(blocks) = 2
    /\ Len(clauses) = 2

\* Sub-clause c of block e, made of piece p, has its type from the
\* repository: no term of the expander's detector typed the piece.
PiecesOf(e) == subBlocksOf(cleanedOf(e.block))
TypedByRepository(p) ==
    detectMiscellaneousSubclauseType(trim(p)) = NoType /\ PieceTypeOf(trim(p)) # NoType

\* C20: a clause has matched_from_repository exactly when its type was taken
\* from a repository match, and then similarity_score is that match's
\* score; otherwise the score is 0.  For regular clauses and sub-clauses.
C20_ProvenanceFlags ==
    pc = "returned" =>
        \A k \in 1..Len(log) :
            /\ Unexpanded(log[k]) =>
                  /\ log[k].emitted[1].matched_from_repository = RepoPreferred(log[k])
                  /\ Same(log[k].emitted[1].similarity_score,
                          IF RepoPreferred(log[k]) THEN RepoMatchOf(log[k]).score ELSE Zero)
            /\ log[k].outcome = "expanded" =>
                  \A i \in 1..Len(log[k].emitted) : \A j \in 1..Len(PiecesOf(log[k])) :
                      log[k].emitted[i].clause_text = normalizeText(trim(PiecesOf(log[k])[j]))
                      => /\ log[k].emitted[i].matched_from_repository
                              = TypedByRepository(PiecesOf(log[k])[j])
                         /\ TypedByRepository(PiecesOf(log[k])[j])
                            \/ Same(log[k].emitted[i].similarity_score, Zero)

(***************************************************************************)
(* Properties of calls that run side by side (ConcurrentSpec).             *)
(***************************************************************************)
\* What a call on the document of frame f returns when it runs alone.
AloneOf(f) == extractClausesRuleBased(f.documentText, repositoryClauses, userSchema)

\* C17: an invocation that has returned has returned the list that a call on
\* its arguments returns when it runs alone, and one that has thrown is one
\* that throws alone, whatever the other invocations did before it or
\* between its steps; so two invocations on equal arguments return equal
\* lists.  No step of an invocation changes the repository list or the
\* schema record.
C17_CallLocalState ==
    /\ [](\A k \in 1..Len(frames) :
             /\ frames[k].at = "returned" =>
                   ~AloneOf(frames[k]).threw /\ frames[k].clauses = AloneOf(frames[k]).clauses
             /\ frames[k].at = "thrown" => AloneOf(frames[k]).threw)
    /\ [](\A j, k \in 1..Len(frames) :
             /\ frames[j].at = "returned" /\ frames[k].at = "returned"
             /\ frames[j].documentText = frames[k].documentText
             => frames[j].clauses = frames[k].clauses)
    /\ [][pc = "calling" => repositoryClauses' = repositoryClauses /\ userSchema' = userSchema]_vars

\* Two invocations on the same document, which has a repeated block: the
\* second was entered after the first, and has returned its clause while
\* the first is between its two iterations.
C17_Interleaved ==
    /\ Len(frames) = 2
    /\ frames[1].documentText = frames[2].documentText
    /\ Len(frames[1].blocks) = 2
    /\ frames[1].blocks[1] = frames[1].blocks[2]
    /\ frames[1].at = "loop" /\ frames[1].next = 2 /\ Len(frames[1].clauses) = 1
    /\ frames[2].at = "returned" /\ Len(frames[2].clauses) = 1

(***************************************************************************)
(* Properties of the segmentation (Spec), continued.                       *)
(***************************************************************************)
\* The split expression that produced the pieces the merge loop walks: the
\* alternative pattern taken, the caller's schema's, or the detected one.
ProducingRegex ==
    IF trace.fallback # 0 THEN Fallbacks[trace.fallback].regex
    ELSE IF userSchema # Absent /\ userSchema # "none" THEN getSchemaSplitRegex(userSchema)
    ELSE detectNumberingSchema(trace.cleanedText).pattern

\* Piece k is kept by the loop and begins with a header of the pattern that
\* produced the pieces.
StartsWithProducedHeader(k) ==
    /\ k \in KeptPieces
    /\ MatchAtoms(SplitPattern(ProducingRegex).look, trim(Pieces[k]), 1) # 0

\* C22: when the pieces come from an alternative pattern the header
\* expression of the merge loop is that pattern's, whether a schema was
\* given or not; and a text cut into three or more pieces that each begin
\* with a header of the pattern that cut them gives as many blocks as
\* pieces.
C22_HeaderRegexFollowsSplit ==
    pc = "returned" =>
        /\ trace.fallback # 0 =>
              trace.mainHeaderRegex = getSchemaRegex(Fallbacks[trace.fallback].schemaType)
        /\ /\ ProducingRegex.type = "RegExp"
           /\ Len(Pieces) >= MinPieces
           /\ \A k \in 1..Len(Pieces) : StartsWithProducedHeader(k)
           => Len(blocks) = Len(Pieces)

(***************************************************************************)
(* Properties of the schema detector (DetectSpec).                         *)
(***************************************************************************)
\* The header line that candidate k of the detector counts, and the number
\* of lines of the text that are that header line.
LineOf(k) ==
    CASE k = 1 -> <<"I", DOT, SP, "TERM", DOT>>
      [] k = 2 -> <<"Section", SP, "1", DOT>>
      [] k = 3 -> <<"ARTICLE", SP, "1", DOT>>
      [] k = 4 -> <<"ARTICLE", SP, "I", DOT>>
      [] k = 5 -> <<"1", DOT, SP, "TERM", DOT>>
LinesOf(k) ==
    Cardinality({q \in 1..Len(documentText) :
                    /\ documentText[q] = NL
                    /\ q + Len(LineOf(k)) <= Len(documentText)
                    /\ SubSeq(documentText, q + 1, q + Len(LineOf(k))) = LineOf(k)})
Candidates5 == 1..Len(DetectTypes)
HighestCount == Max({LinesOf(k) : k \in Candidates5})

\* C23: the detector returns the candidate with the most header lines in
\* the text, the first in the order roman, section, article, article-roman,
\* numeric among those with the most, and the roman candidate when no
\* candidate has two lines.
C23_HighestCountFirstListed ==
    pc = "detected" =>
        /\ HighestCount < 2 => detected = Detected(1)
        /\ HighestCount >= 2 =>
              \E k \in Candidates5 :
                  /\ detected = Detected(k)
                  /\ LinesOf(k) = HighestCount
                  /\ \A j \in 1..(k - 1) : LinesOf(j) < HighestCount

\* Two candidates have two header lines each and the roman one is not among
\* them: the one listed first has been returned.
C23_TieFirstListed ==
    /\ pc = "detected"
    /\ HighestCount = 2
    /\ LinesOf(1) = 0
    /\ \E j, k \in Candidates5 :
          /\ j < k /\ LinesOf(j) = 2 /\ LinesOf(k) = 2
          /\ detected.type = DetectTypes[j]

\* The pieces of the primary split that are left after the preamble test.
PrimaryPieces == IF trace.skippedPreamble THEN Tail(trace.primary) ELSE trace.primary

\* The pieces that alternative pattern k cuts the text into.
AlternativePieces(k) == split(trace.cleanedText, Fallbacks[k].regex)
YieldsEnough(k) == Len(AlternativePieces(k)) >= MinPieces

\* C24: with three primary pieces or more no alternative pattern is taken;
\* with fewer, the pieces are those of the first of roman+caps,
\* Section/Article and numeric+caps that cuts the text into three pieces or
\* more, and the primary pieces when none does.
C24_FirstFallbackWithThreePieces ==
    pc = "returned" =>
        /\ Fallbacks[1].regex.key = "romanCaps"
        /\ Fallbacks[2].regex.key = "section"
        /\ Fallbacks[3].regex.key = "numericCaps"
        /\ Len(PrimaryPieces) >= MinPieces => trace.fallback = 0 /\ Pieces = PrimaryPieces
        /\ Len(PrimaryPieces) < MinPieces =>
              IF \E k \in 1..3 : YieldsEnough(k)
              THEN /\ YieldsEnough(trace.fallback)
                   /\ \A j \in 1..(trace.fallback - 1) : ~YieldsEnough(j)
                   /\ Pieces = AlternativePieces(trace.fallback)
              ELSE trace.fallback = 0 /\ Pieces = PrimaryPieces

\* Fewer than three primary pieces, and the first and the third alternative
\* pattern both cut the text into three: the first one's pieces are taken.
C24_EarlierFallbackTaken ==
    /\ pc = "returned"
    /\ Len(PrimaryPieces) < MinPieces
    /\ YieldsEnough(1) /\ ~YieldsEnough(2) /\ YieldsEnough(3)
    /\ trace.fallback = 1
    /\ Pieces = AlternativePieces(1)

(***************************************************************************)
(* Properties of the schema registry (Spec).                               *)
(***************************************************************************)
\* The identifiers the extractor page offers as numbering schema.
NumberingOptions ==
    {"none", "section", "section-decimal", "article", "numeric", "numeric-paren",
     "paren-numeric", "decimal", "decimal-zero", "decimal-triple", "alpha-upper",
     "alpha-lower", "alpha-lower-paren", "paren-alpha", "roman-upper", "roman-lower",
     "roman-upper-paren", "roman-lower-paren", "paren-roman-upper", "paren-roman-lower"}

\* C25: the schema a call was given has a header expression exactly when it
\* has a split expression, and the primary pieces of a call with an offered
\* schema other than "none" are those its split expression cuts.
C25_RegistryConsistent ==
    pc = "returned" /\ userSchema # Absent =>
        /\ Truthy(getSchemaRegex(userSchema)) <=> Truthy(getSchemaSplitRegex(userSchema))
        /\ userSchema \in NumberingOptions \ {"none"} =>
              /\ getSchemaSplitRegex(userSchema).type = "RegExp"
              /\ trace.primary = split(trace.cleanedText, getSchemaSplitRegex(userSchema))

(***************************************************************************)
(* Properties of the expander's splits (ClassifySpec).                     *)
(***************************************************************************)
\* The qualifying pieces that split strategy s of the expander cuts the
\* block of log entry e into.
SplitBy(s, e) ==
    CASE s = 1 -> longerThan(subSplit("sectionDecimal", cleanedOf(e.block), 1, 1), MinSplitPiece)
      [] s = 2 -> longerThan(subSplit("paren", cleanedOf(e.block), 1, 1), MinSplitPiece)
      [] s = 3 -> longerThan(subSplit("blankLine", cleanedOf(e.block), 1, 1), MinBlankLinePiece)

\* C26: the sub-clauses of an expanded block are those of the pieces of the
\* first of the Section N.M split, the parenthetical split and the
\* blank-line split that yields two qualifying pieces or more; no sub-clause
\* is made of a split of fewer than two pieces.
C26_SubclausesOfTwoPiecesOrMore ==
    pc = "returned" =>
        \A k \in 1..Len(log) :
            log[k].outcome = "expanded" =>
                \E s \in 1..3 :
                    /\ Len(SplitBy(s, log[k])) >= MinSubPieces
                    /\ \A j \in 1..(s - 1) : Len(SplitBy(j, log[k])) < MinSubPieces
                    /\ log[k].emitted
                         = subclausesOf(log[k].clause_no, SplitBy(s, log[k]), repositoryClauses)

(***************************************************************************)
(* Properties of the keyword scan of detectClauseType (KeywordSpec).       *)
(***************************************************************************)
\* The keyword rules with a term in the first 200 characters of the text,
\* and the marker words in its first 50 characters.
RulesIn200 == KeywordHitsWithin(documentText, First200)
WordsIn50 == EarlyHitsWithin(documentText, VeryEarly)

PartiesMarker == {"between", "party"} \subseteq WordsIn50
DocumentNameMarker == "agreement" \in WordsIn50 /\ ({"made", "dated"} \cap WordsIn50 # {})

\* C27 as stated: the type is that of the first keyword rule with a term in
\* the first 200 characters, and the markers of the first 50 characters
\* decide the type only when no rule has one.
C27_MarkersOnlyAsFallback ==
    pc = "typed" =>
        /\ RulesIn200 # {} => detectedType = <<KeywordType[Min(RulesIn200)]>>
        /\ RulesIn200 = {} /\ PartiesMarker => detectedType = <<"Parties">>
        /\ RulesIn200 = {} /\ ~PartiesMarker /\ DocumentNameMarker
              => detectedType = <<"Document Name">>

\* C27: the markers of the first 50 characters decide the type first,
\* "between" with "party" before "agreement" with "made" or "dated"; when
\* neither is there, the type is that of the first keyword rule, in the
\* fixed order, with a term in the first 200 characters.
C27_MarkersBeforeKeywordRules ==
    pc = "typed" =>
        /\ PartiesMarker => detectedType = <<"Parties">>
        /\ ~PartiesMarker /\ DocumentNameMarker => detectedType = <<"Document Name">>
        /\ ~PartiesMarker /\ ~DocumentNameMarker /\ RulesIn200 # {}
              => detectedType = <<KeywordType[Min(RulesIn200)]>>

\* A text with a marker in its first 50 characters and a term of a keyword
\* rule in its first 200, typed by the marker.
C27_MarkerAndKeyword ==
    /\ pc = "typed"
    /\ PartiesMarker
    /\ RulesIn200 # {}
    /\ detectedType = <<"Parties">>

(***************************************************************************)
(* Properties of parseClauseNumber (ParseSpec).                            *)
(***************************************************************************)
\* The patterns of parseClauseNumber that match the trimmed block S.
Matching(S) ==
    {p \in 1..4 :
        CASE p = 1 -> NumberPrefix(S) /\ TitleStop(S, 3, TRUE) # 0
          [] p = 2 -> sectionStop(S, SectionPrefix(S)) # 0
          [] p = 3 -> NumberPrefix(S) /\ Len(S) >= 3
          [] p = 4 -> AllCapsStop(S) # 0}

\* The result is that of the first pattern that matches, and the trimmed
\* block as body under an empty clause_no when none does.
FirstMatchingPattern ==
    /\ parsed.pattern = IF Matching(trim(documentText)) = {} THEN 0
                        ELSE Min(Matching(trim(documentText)))
    /\ Matching(trim(documentText)) = {} =>
          parsed.clause_no = <<>> /\ parsed.body_text = trim(documentText)

\* A number and a period, then sentences k.. of the block and nothing else.
RECURSIVE OnlySentences(_, _)
OnlySentences(S, k) ==
    \E s \in Sentences :
        /\ k + Len(s) - 1 <= Len(S)
        /\ SubSeq(S, k, k + Len(s) - 1) = s
        /\ \/ k + Len(s) - 1 = Len(S)
           \/ /\ At(S, k + Len(s)) \in Ws
              /\ OnlySentences(S, k + Len(s) + 1)

NumberThenBody ==
    /\ Len(documentText) > 3
    /\ SubSeq(documentText, 1, 3) = <<"1", DOT, SP>>
    /\ OnlySentences(documentText, 4)

\* C28: the result is that of the first of the four patterns that matches;
\* when none matches clause_no is empty and body_text is the trimmed block;
\* and of a number and period followed by body sentences without a title,
\* clause_no is the number and body_text all the text after it.
C28_NumberThenBodyAllInBody ==
    pc = "parsed" =>
        /\ FirstMatchingPattern
        /\ NumberThenBody =>
              /\ parsed.clause_no = <<"1", DOT>>
              /\ parsed.body_text = SubSeq(documentText, 4, Len(documentText))

(***************************************************************************)
(* Properties of the auto-sync (SyncSpec).                                 *)
(***************************************************************************)
\* Mutations i..j follow one another by less than the debounce delay.
Burst(i, j) ==
    /\ i <= j
    /\ \A k \in i..(j - 1) : mutations[k + 1].at - mutations[k].at < Debounce

\* The scheduled requests whose timer a mutation of i..j has set.
StartedBy(i, j) ==
    {r \in 1..Len(sent) : \E k \in i..j : mutations[k].handle = sent[r].handle}

\* C21: the mutations of a sequence in which each follows the previous one
\* by less than 2 seconds start at most one syncAll request, no earlier
\* than 2 seconds after the last of them; a request is sent only when the
\* auth status is authenticated, and carries the clauses and contracts as
\* stored at the moment it is sent.
C21_DebouncedAutoSync ==
    /\ [](\A i \in 1..Len(mutations), j \in 1..Len(mutations) :
             Burst(i, j) =>
                /\ Cardinality(StartedBy(i, j)) <= 1
                /\ \A r \in StartedBy(i, j) : sent[r].at >= mutations[j].at + Debounce)
    /\ [](\A r \in 1..Len(sent) : sent[r].authenticated)
    /\ [][Len(sent') > Len(sent) =>
             /\ sent'[Len(sent')].body.clauses = getClauses(storedClauses)
             /\ sent'[Len(sent')].body.contracts = getContracts(storedContracts)]_vars

(***************************************************************************)
(* Properties of the sync status (SyncSpec).                               *)
(***************************************************************************)
\* C29: while a sync request is under way, isSyncing() is true and the
\* status last delivered to the listeners is 'syncing'.
C29_SyncingWhileRequestUnderWay ==
    inflight # <<>> => isSyncing /\ delivered = "syncing"

(***************************************************************************)
(* Properties of the store (StoreSpec).                                    *)
(***************************************************************************)
\* No two clauses of the list share an id.
DistinctIds(list) ==
    \A k \in 1..Len(list), j \in 1..Len(list) : list[k].id = list[j].id => k = j

\* C30: no two stored clauses share an id, and an import without the
\* replace option leaves every clause stored before it as it was.
C30_StoredIdsDistinct ==
    /\ [](DistinctIds(getClauses(storedClauses)))
    /\ [][(\E data \in Files(uuids) : importData(data, FALSE)) =>
             /\ Len(storedClauses') >= Len(storedClauses)
             /\ SubSeq(getClauses(storedClauses'), 1, Len(storedClauses)) = getClauses(storedClauses)]_vars
=============================================================================
